---- MODULE Spec2Model ----
(***************************************************************************)
(* A model of the Arkanoid match core: the Game component's frame loop     *)
(* (draw), its physics step (collisionDetection, handleGoldenBrick,        *)
(* resetBallAndPaddle), the AI decision block, the loop detector, the      *)
(* React state flags isWinning / isLosing and the delayed outcome report.  *)
(*                                                                         *)
(* Numbers.  The program computes in IEEE doubles.  Lengths and velocities *)
(* are modelled in fixed point, U units to the pixel, every product or     *)
(* quotient rounded to the nearest unit.  Confidence is modelled in        *)
(* 1/CONF_ONE, the skill level in 1/SKILL_ONE.                             *)
(***************************************************************************)
EXTENDS Integers, Sequences, FiniteSets, TLC

\* ------------------------------------------------------------------------
\* Fixed-point representation of the JavaScript numbers
\* ------------------------------------------------------------------------
U == 100
\* velocities are kept ten times finer than positions: VU units are 1 px per frame
V == 10
VU == U * V
CONF_ONE == 10000
SKILL_ONE == 100
BIG == 1000000

Abs(a) == IF a < 0 THEN -a ELSE a
Sign(a) == IF a > 0 THEN 1 ELSE IF a < 0 THEN -1 ELSE 0
Min(a, b) == IF a < b THEN a ELSE b
Max(a, b) == IF a > b THEN a ELSE b

\* a / b rounded to the nearest integer (b # 0)
RDiv(a, b) ==
  LET q == (2 * Abs(a) + Abs(b)) \div (2 * Abs(b))
  IN  IF Sign(a) * Sign(b) < 0 THEN -q ELSE q

\* Values beyond +-BIG units (10000 px) behave alike in every comparison the
\* program makes with them; Sat keeps them inside the modelled number range.
Sat(a) == Max(-BIG, Min(BIG, a))

RECURSIVE SqrtIter(_, _)
SqrtIter(n, x) ==
  LET y == (x + n \div x) \div 2
  IN  IF y >= x THEN x ELSE SqrtIter(n, y)

\* Math.sqrt, rounded to the nearest unit
Sqrt(n) ==
  IF n = 0 THEN 0
  ELSE LET f == SqrtIter(n, n)
       IN  IF n - f * f > f THEN f + 1 ELSE f

\* Math.sqrt(a**2 + b**2); components beyond 30 px/frame are squared in
\* coarser units to stay inside the modelled number range
Hypot(a, b) ==
  LET m == Max(Abs(a), Abs(b))
      k == IF m <= 30000 THEN 1 ELSE IF m <= 300000 THEN 10 ELSE 100
  IN  k * Sqrt((a \div k) * (a \div k) + (b \div k) * (b \div k))

\* ------------------------------------------------------------------------
\* constants.ts
\* ------------------------------------------------------------------------
CANVAS_WIDTH == 400 * U
CANVAS_HEIGHT == 300 * U
PADDLE_WIDTH == 60 * U
PADDLE_HEIGHT == 8 * U
PADDLE_Y_OFFSET == 15 * U
BALL_RADIUS == 5 * U
BALL_SPEED_X == 6 * VU
BALL_SPEED_Y == -6 * VU
MIN_BALL_SPEED == 4 * VU
MAX_BALL_SPEED == 10 * VU
\* multipliers, as fractions num / den
PADDLE_SPIN_FACTOR == 4
PADDLE_VELOCITY_SPIN_FACTOR == <<3, 10>>
PADDLE_EDGE_BOOST == <<25, 10>>
PADDLE_FLICK_SPEED_BONUS == <<11, 10>>
BALL_FRICTION == <<9995, 10000>>
BRICK_ROW_COUNT == 5
BRICK_COLUMN_COUNT == 9
BRICK_WIDTH == 36 * U
BRICK_HEIGHT == 10 * U
BRICK_PADDING == 5 * U
BRICK_OFFSET_TOP == 20 * U
BRICK_OFFSET_LEFT == 18 * U
INITIAL_LIVES == 3
SIMULATION_GAME_COUNT == 6
POINTS_PER_BRICK == 10
POWER_BALL_DURATION == 240
AI_PADDLE_EASING == <<4, 10>>
AI_PADDLE_JITTER_AMOUNT == 4 * U
AI_STUCK_FRAMES_THRESHOLD == 180
AI_POWER_SHOT_MULTIPLIER == 7
AI_END_GAME_BRICK_COUNT == 3
AI_RECOVERY_FRAMES == 90
AI_LOOP_DETECTION_HISTORY_LENGTH == 60
AI_LOOP_DETECTION_BOX_SIZE == BALL_RADIUS * 6
AI_STRATEGIC_PLANNING_THRESHOLD_Y == (CANVAS_HEIGHT * 75) \div 100
AI_SIMULATION_DEPTH == 4
\* the normalized impact points, in hundredths
AI_SIMULATION_ANGLES == <<-90, -60, -30, 0, 30, 60, 90>>

LEVEL_LAYOUTS ==
  << << <<1,1,1,1,1,1,1,1,1>>,
        <<1,1,1,1,1,1,1,1,1>>,
        <<1,1,1,1,1,1,1,1,1>>,
        <<1,1,1,1,1,1,1,1,1>>,
        <<1,1,1,1,1,1,1,1,1>> >>,
     << <<0,0,0,0,1,0,0,0,0>>,
        <<0,0,0,1,1,1,0,0,0>>,
        <<0,0,1,1,1,1,1,0,0>>,
        <<0,1,1,1,1,1,1,1,0>>,
        <<1,1,1,1,1,1,1,1,1>> >>,
     << <<1,1,0,1,1,1,0,1,1>>,
        <<1,1,0,1,1,1,0,1,1>>,
        <<1,1,0,1,1,1,0,1,1>>,
        <<1,1,0,1,1,1,0,1,1>>,
        <<1,1,0,1,1,1,0,1,1>> >>,
     << <<1,1,1,1,1,1,1,1,1>>,
        <<1,0,0,1,0,1,0,0,1>>,
        <<1,1,1,1,1,1,1,1,1>>,
        <<1,0,1,0,0,0,1,0,1>>,
        <<1,1,1,1,1,1,1,1,1>> >>,
     << <<1,0,1,0,1,0,1,0,1>>,
        <<0,1,0,1,0,1,0,1,0>>,
        <<1,0,1,0,1,0,1,0,1>>,
        <<0,1,0,1,0,1,0,1,0>>,
        <<1,0,1,0,1,0,1,0,1>> >> >>

\* ------------------------------------------------------------------------
\* The brick grid: bricksRef.current[c][r], c = column, r = row
\* ------------------------------------------------------------------------
Cells == (0 .. (BRICK_COLUMN_COUNT - 1)) \X (0 .. (BRICK_ROW_COUNT - 1))

\* layout[r]?.[c] === 1
HasBrick(layout, c, r) == LEVEL_LAYOUTS[layout][r + 1][c + 1] = 1
LayoutCells(layout) == {cell \in Cells : HasBrick(layout, cell[1], cell[2])}

\* the pixel position drawBricks gives the brick of column c, row r
BrickX(c) == c * (BRICK_WIDTH + BRICK_PADDING) + BRICK_OFFSET_LEFT
BrickY(r) == r * (BRICK_HEIGHT + BRICK_PADDING) + BRICK_OFFSET_TOP

paddleTopY == CANVAS_HEIGHT - PADDLE_Y_OFFSET - PADDLE_HEIGHT

\* ------------------------------------------------------------------------
\* State
\* ------------------------------------------------------------------------
VARIABLES
  props,                      \* GameProps: initialLives, initialSkillLevel, rank, totalInstances, isAIEnabled
  ball,                       \* ballRef.current
  paddle,                     \* paddleRef.current
  prevPaddleX,                \* prevPaddleXRef.current
  paddleVelocity,             \* paddleVelocityRef.current
  bricks,                     \* bricksRef.current
  score,                      \* scoreRef.current
  lives,                      \* livesRef.current
  isPowerShotMode,            \* isPowerShotModeRef.current
  frameCounter,               \* frameCounterRef.current
  lastBrickBreakFrame,        \* lastBrickBreakFrameRef.current
  ballPositionHistory,        \* ballPositionHistoryRef.current
  recoveringFromStuckCounter, \* recoveringFromStuckCounterRef.current
  isStuck,                    \* isStuckRef.current
  productiveHits,             \* productiveHitsRef.current
  nonProductiveHits,          \* nonProductiveHitsRef.current
  dynamicAggressionFactor,    \* dynamicAggressionFactorRef.current
  currentTargetBrick,         \* currentTargetBrickRef.current
  strategicPlan,              \* strategicPlanRef.current
  jackpotsThisGame,           \* jackpotsThisGameRef.current
  isWinning,                  \* isWinning as the running draw / collisionDetection closures see it
  isLosing,                   \* isLosing as the running closures see it
  setWinning,                 \* the value last given to setIsWinning (React state awaiting its render)
  setLosing,                  \* the value last given to setIsLosing
  timeouts,                   \* pending setTimeout(..., 750) report callbacks
  gameEnds,                   \* the onGameEnd calls the mounted component made so far
  instances,                  \* App's gameInstances, by instance id
  mounted,                    \* the component is mounted and its frame loop runs
  playFrames,                 \* frames drawn while the closures see an active match
  settleFrames,               \* frames drawn while the closures see a terminal flag
  staleFrames,                \* frames drawn between a setIsWinning/setIsLosing call and its render
  jitterDraws,                \* jitter values of Math.random() drawn freely so far
  ev                          \* what the last step did (observation only)

vars == <<props, ball, paddle, prevPaddleX, paddleVelocity, bricks, score, lives,
          isPowerShotMode, frameCounter, lastBrickBreakFrame, ballPositionHistory,
          recoveringFromStuckCounter, isStuck, productiveHits, nonProductiveHits,
          dynamicAggressionFactor, currentTargetBrick, strategicPlan, jackpotsThisGame,
          isWinning, isLosing, setWinning, setLosing, timeouts, gameEnds, instances,
          mounted, playFrames, settleFrames, staleFrames, jitterDraws, ev>>

\* null, for string-valued fields
NULL == "null"
\* a number | null | NaN | Infinity
None == [t |-> "null", v |-> 0]
NotANumber == [t |-> "NaN", v |-> 0]
Infinite == [t |-> "Infinity", v |-> 0]
Num(v) == [t |-> "number", v |-> v]
\* strategicPlanRef.current = null, currentTargetBrickRef.current = null
NoPlan == [paths |-> <<>>, bestPathIndex |-> 0]
NoBrick == <<>>

\* The refs a frame reads and writes, gathered in one record
World ==
  [ ball |-> ball, paddle |-> paddle, prevPaddleX |-> prevPaddleX,
    paddleVelocity |-> paddleVelocity, bricks |-> bricks, score |-> score,
    lives |-> lives, isPowerShotMode |-> isPowerShotMode,
    frameCounter |-> frameCounter, lastBrickBreakFrame |-> lastBrickBreakFrame,
    ballPositionHistory |-> ballPositionHistory,
    recoveringFromStuckCounter |-> recoveringFromStuckCounter, isStuck |-> isStuck,
    productiveHits |-> productiveHits, nonProductiveHits |-> nonProductiveHits,
    dynamicAggressionFactor |-> dynamicAggressionFactor,
    currentTargetBrick |-> currentTargetBrick, strategicPlan |-> strategicPlan,
    jackpotsThisGame |-> jackpotsThisGame,
    setWinning |-> setWinning, setLosing |-> setLosing, timeouts |-> timeouts,
    ev |-> ev ]

NoJackpot == [happened |-> FALSE]
\* no onGameEnd call
NoReport ==
  [ instanceId |-> -1, result |-> NULL, score |-> 0, remainingLives |-> 0,
    productivity |-> 0, productiveHits |-> 0, nonProductiveHits |-> 0, jackpotsHit |-> 0 ]

\* The observation record of a step that is not a frame
NoEvent(kind) ==
  [ kind |-> kind, physics |-> FALSE, powerAtStart |-> FALSE,
    bricksBefore |-> bricks, direct |-> 0, jackpot |-> NoJackpot,
    \* what the AI decision block of the frame read from the refs
    seen |-> [lives |-> lives, aggression |-> dynamicAggressionFactor,
              productivity |-> 0, frame |-> frameCounter, ball |-> ball],
    roulette |-> NULL, paddleHit |-> FALSE, floorExit |-> FALSE,
    \* the paddle branch: spin + spinFromVelocity, and dx, dy at its end
    bounce |-> [spin |-> 0, dx |-> 0, dy |-> 0, velocity |-> 0],
    winDetected |-> FALSE, lossDetected |-> FALSE,
    agentMode |-> NULL, simulated |-> FALSE, wantsToGamble |-> FALSE,
    \* the scores of the paths runShotSimulations projected in this frame
    simScores |-> <<>>,
    offensiveKind |-> NULL, offensiveTargetX |-> None, defensiveTargetX |-> 0,
    finalKind |-> NULL, finalTargetX |-> 0, decisionConfidence |-> 0,
    stuckAtDetect |-> FALSE, recoveringAtDetect |-> 0, conditionAtDetect |-> FALSE,
    stuckDeclared |-> FALSE,
    \* history: the declarations so far, the frame of the last one (-1: none),
    \* and the frame of the last one before this frame's detection
    stuckDeclarations |-> 0, lastStuckFrame |-> -1, previousStuckFrame |-> -1,
    \* at a mount: what the component of the finished match held
    left |-> [recoveringFromStuckCounter |-> recoveringFromStuckCounter,
              isPowerShotMode |-> isPowerShotMode, score |-> score, lives |-> lives],
    \* at a report: the arguments of the onGameEnd call
    report |-> NoReport ]

\* ------------------------------------------------------------------------
\* getProductivity (in hundredths of a percent, rounded down)
\* ------------------------------------------------------------------------
getProductivity(w) ==
  LET totalHits == w.productiveHits + w.nonProductiveHits
  IN  IF totalHits > 0 THEN (w.productiveHits * 10000) \div totalHits ELSE 0

\* ------------------------------------------------------------------------
\* createBricks, resetBallAndPaddle
\* ------------------------------------------------------------------------
\* the index a cell of `cells` has in an array filled column by column
PushIndex(cells, cell) ==
  Cardinality({other \in cells : \/ other[1] < cell[1]
                                 \/ other[1] = cell[1] /\ other[2] < cell[2]})

\* Math.floor(Math.random() * length), rand in hundredths
RandomIndex(rand, length) == (rand * length) \div 100

\* createBricks drawing the golden brick among all the cells of the grid
createBricksAnyCell(layout, rand) ==
  [cell \in Cells |->
     [ x |-> 0, y |-> 0,
       status |-> IF HasBrick(layout, cell[1], cell[2]) THEN 1 ELSE 0,
       isGolden |-> PushIndex(Cells, cell) = RandomIndex(rand, Cardinality(Cells)) ]]

\* rand is the Math.random() (in hundredths) that picks the golden brick
createBricks(layout, rand) ==
  LET availableBricks == LayoutCells(layout)
      goldenIndex == RandomIndex(rand, Cardinality(availableBricks))
  IN  [cell \in Cells |->
         [ x |-> 0, y |-> 0,
           status |-> IF HasBrick(layout, cell[1], cell[2]) THEN 1 ELSE 0,
           isGolden |-> /\ cell \in availableBricks
                        /\ PushIndex(availableBricks, cell) = goldenIndex ]]

\* a faulty variant of the ball reset: the ball is served downwards
resetBallDownwards(rand) ==
  [ x |-> CANVAS_WIDTH \div 2,
    y |-> CANVAS_HEIGHT - PADDLE_Y_OFFSET - PADDLE_HEIGHT - BALL_RADIUS,
    dx |-> BALL_SPEED_X * (IF rand > 50 THEN 1 ELSE -1),
    dy |-> -BALL_SPEED_Y,
    radius |-> BALL_RADIUS,
    isPowerBall |-> FALSE,
    powerBallTimer |-> 0 ]

\* rand models Math.random() in hundredths
resetBall(rand) ==
  [ x |-> CANVAS_WIDTH \div 2,
    y |-> CANVAS_HEIGHT - PADDLE_Y_OFFSET - PADDLE_HEIGHT - BALL_RADIUS,
    dx |-> BALL_SPEED_X * (IF rand > 50 THEN 1 ELSE -1),
    dy |-> BALL_SPEED_Y,
    radius |-> BALL_RADIUS,
    isPowerBall |-> FALSE,
    powerBallTimer |-> 0 ]

\* a faulty variant of the reset: the bricks of the layout are put back
resetBallAndPaddleAndBricks(w, rand) ==
  [w EXCEPT !.ball = resetBall(rand),
            !.paddle = [@ EXCEPT !.x = (CANVAS_WIDTH - PADDLE_WIDTH) \div 2],
            !.bricks = [cell \in Cells |->
                          IF @[cell].x # 0 \/ @[cell].y # 0
                          THEN [@[cell] EXCEPT !.status = 1] ELSE @[cell]]]

resetBallAndPaddle(w, rand) ==
  [w EXCEPT !.ball = resetBall(rand),
            !.paddle = [@ EXCEPT !.x = (CANVAS_WIDTH - PADDLE_WIDTH) \div 2]]

\* ------------------------------------------------------------------------
\* handleGoldenBrick
\* ------------------------------------------------------------------------
GOLDEN_BRICK_ROULETTE_CHANCES == [JACKPOT |-> 25, POWER_BALL |-> 35, DUD |-> 40]

\* the roulette: rand models Math.random() in hundredths
RouletteOutcome(rand) ==
  IF rand < GOLDEN_BRICK_ROULETTE_CHANCES.JACKPOT THEN "JACKPOT"
  ELSE IF rand < GOLDEN_BRICK_ROULETTE_CHANCES.JACKPOT + GOLDEN_BRICK_ROULETTE_CHANCES.POWER_BALL
       THEN "POWER_BALL"
  ELSE "DUD"

\* the row of a brick, from its pixel position
RowOfBrick(b) == RDiv(b.y - BRICK_OFFSET_TOP, BRICK_HEIGHT + BRICK_PADDING)

\* a faulty variant of the row clear: the golden brick's column goes with its row
JackpotBricksCross(bs, row) ==
  [cell \in Cells |->
     IF (cell[2] = row \/ \E g \in Cells : bs[g].isGolden /\ g[1] = cell[1])
        /\ bs[cell].status = 1
     THEN [bs[cell] EXCEPT !.status = 0] ELSE bs[cell]]

\* for (c ...) { b = bricks[c][row]; if (b.status === 1) { b.status = 0; ... } }
JackpotBricks(bs, row) ==
  [cell \in Cells |->
     IF cell[2] = row /\ bs[cell].status = 1 THEN [bs[cell] EXCEPT !.status = 0] ELSE bs[cell]]

\* a faulty variant of the row count: the golden brick is paid a second time
JackpotCountWithGolden(bs, row) ==
  Cardinality({cell \in Cells : cell[2] = row /\ (bs[cell].status = 1 \/ bs[cell].isGolden)})

JackpotCount(bs, row) == Cardinality({cell \in Cells : cell[2] = row /\ bs[cell].status = 1})

\* what a Jackpot resolution may change, for observation
Snapshot(w) ==
  [ bricks |-> w.bricks, score |-> w.score, productiveHits |-> w.productiveHits,
    jackpotsThisGame |-> w.jackpotsThisGame ]

ballSpeed(b) == Hypot(b.dx, b.dy)

handleGoldenBrick(w, brick, rand) ==
  LET outcome == RouletteOutcome(rand)
      speed == ballSpeed(w.ball)
  IN  IF outcome = "JACKPOT" THEN
        LET row == RowOfBrick(brick)
            n == JackpotCount(w.bricks, row)
            w1 == [w EXCEPT !.jackpotsThisGame = @ + 1,
                            !.bricks = JackpotBricks(w.bricks, row),
                            !.score = @ + POINTS_PER_BRICK * n,
                            !.productiveHits = @ + n]
        IN  [w1 EXCEPT !.ev.roulette = outcome,
                       !.ev.jackpot = [happened |-> TRUE, row |-> row,
                                       pre |-> Snapshot(w), post |-> Snapshot(w1)]]
      ELSE IF outcome = "POWER_BALL" THEN
        [w EXCEPT !.ball.isPowerBall = TRUE,
                  !.ball.powerBallTimer = POWER_BALL_DURATION,
                  !.ball.dx = RDiv(@ * (speed + 2 * VU), speed),
                  !.ball.dy = RDiv(@ * (speed + 2 * VU), speed),
                  !.ev.roulette = outcome]
      ELSE
        [w EXCEPT !.ball.dx = RDiv(@ * MAX_BALL_SPEED, speed),
                  !.ball.dy = RDiv(@ * MAX_BALL_SPEED, speed),
                  !.ev.roulette = outcome]

\* ------------------------------------------------------------------------
\* collisionDetection
\* ------------------------------------------------------------------------
\* distanceSquared < ball.radius * ball.radius, for the closest point of the
\* brick's rectangle to the ball centre
BallTouchesBrick(b, brick) ==
  LET closestX == Max(brick.x, Min(b.x, brick.x + BRICK_WIDTH))
      closestY == Max(brick.y, Min(b.y, brick.y + BRICK_HEIGHT))
      ex == b.x - closestX
      ey == b.y - closestY
  IN  /\ Abs(ex) < b.radius
      /\ Abs(ey) < b.radius
      /\ ex * ex + ey * ey < b.radius * b.radius

\* a faulty variant: the confidence is raised without the cap
ConfidenceUpUncapped(f, skill) == f + RDiv(5 * CONF_ONE * skill, 100 * SKILL_ONE)

\* Math.min(1.5, f + 0.05 * initialSkillLevel)
ConfidenceUp(f, skill) == Min((15 * CONF_ONE) \div 10, f + RDiv(5 * CONF_ONE * skill, 100 * SKILL_ONE))
\* Math.max(0.5, f - 0.02 * initialSkillLevel)
ConfidenceDown(f, skill) == Max((5 * CONF_ONE) \div 10, f - RDiv(2 * CONF_ONE * skill, 100 * SKILL_ONE))

\* the bounce off a brick of a non-power ball
BrickBounce(b, brick) ==
  LET prevY == b.y - RDiv(b.dy, V)
      wasVerticallyClear == prevY + b.radius <= brick.y \/ prevY - b.radius >= brick.y + BRICK_HEIGHT
  IN  IF wasVerticallyClear THEN [b EXCEPT !.dy = -b.dy] ELSE [b EXCEPT !.dx = -b.dx]

\* the bounce that ends the brick-hit branch: a power ball flies on
BounceUnlessPower(w, brick) ==
  IF ~w.ball.isPowerBall THEN [w EXCEPT !.ball = BrickBounce(w.ball, brick)] ELSE w

\* the resolution of the golden brick, inside the brick-hit branch
ResolveBrick(w, brick, rand) ==
  BounceUnlessPower(IF brick.isGolden THEN handleGoldenBrick(w, brick, rand) ELSE w, brick)

\* the body of the brick-hit branch; s = [w, total, broken, hit]
HitBrick(s, cell, skill, rand) ==
  [s EXCEPT !.w = ResolveBrick([s.w EXCEPT !.bricks[cell].status = 0,
                                           !.score = @ + POINTS_PER_BRICK,
                                           !.productiveHits = @ + 1,
                                           !.dynamicAggressionFactor = ConfidenceUp(@, skill),
                                           !.lastBrickBreakFrame = s.w.frameCounter,
                                           !.ev.direct = @ + 1],
                               s.w.bricks[cell], rand),
            !.hit = IF ~s.w.ball.isPowerBall THEN TRUE ELSE @]

\* a faulty variant of the scan: collisionDetectedThisFrame is not consulted
ScanCellEveryTouch(s, i, skill, rand) ==
  LET cell == <<i \div BRICK_ROW_COUNT, i % BRICK_ROW_COUNT>>
      b == s.w.bricks[cell]
  IN  IF b.status = 0 /\ b.x = 0 /\ b.y = 0 THEN s
      ELSE IF b.status = 0
           THEN [s EXCEPT !.total = @ + 1, !.broken = @ + 1]
      ELSE IF BallTouchesBrick(s.w.ball, b)
           THEN HitBrick([s EXCEPT !.total = @ + 1], cell, skill, rand)
      ELSE [s EXCEPT !.total = @ + 1]

\* one iteration of the scan, cell number i = c * BRICK_ROW_COUNT + r
ScanCell(s, i, skill, rand) ==
  LET cell == <<i \div BRICK_ROW_COUNT, i % BRICK_ROW_COUNT>>
      b == s.w.bricks[cell]
  IN  IF b.status = 0 /\ b.x = 0 /\ b.y = 0 THEN s
      ELSE IF b.status = 0
           THEN [s EXCEPT !.total = @ + 1, !.broken = @ + 1]
      ELSE IF BallTouchesBrick(s.w.ball, b) /\ ~s.hit
           THEN HitBrick([s EXCEPT !.total = @ + 1], cell, skill, rand)
      ELSE [s EXCEPT !.total = @ + 1]

RECURSIVE BrickScan(_, _, _, _)
BrickScan(s, i, skill, rand) ==
  IF i = Cardinality(DOMAIN s.w.bricks) THEN s
  ELSE BrickScan(ScanCell(s, i, skill, rand), i + 1, skill, rand)

\* side walls, then the top wall
WallBounce(w, skill) ==
  LET b == w.ball
      w1 == IF b.x + b.radius > CANVAS_WIDTH
            THEN [w EXCEPT !.ball.x = CANVAS_WIDTH - b.radius, !.ball.dx = -b.dx,
                           !.nonProductiveHits = @ + 1,
                           !.dynamicAggressionFactor = ConfidenceDown(@, skill)]
            ELSE IF b.x - b.radius < 0
            THEN [w EXCEPT !.ball.x = b.radius, !.ball.dx = -b.dx,
                           !.nonProductiveHits = @ + 1,
                           !.dynamicAggressionFactor = ConfidenceDown(@, skill)]
            ELSE w
  IN  IF b.y - b.radius < 0
      THEN [w1 EXCEPT !.ball.y = b.radius, !.ball.dy = -b.dy,
                      !.nonProductiveHits = @ + 1,
                      !.dynamicAggressionFactor = ConfidenceDown(@, skill)]
      ELSE w1

\* a fraction f = <<num, den>> of a
Frac(a, f) == RDiv(a * f[1], f[2])

\* the paddle branch
PaddleHits(w) ==
  LET b == w.ball
  IN  /\ b.dy > 0
      /\ b.y + b.radius >= paddleTopY
      /\ b.y - RDiv(b.dy, V) < paddleTopY
      /\ b.x > w.paddle.x
      /\ b.x < w.paddle.x + w.paddle.width

\* spin + spinFromVelocity, and dy after the reflection and the flick bonus
PaddleSpin(w) ==
  LET b == w.ball
      half == w.paddle.width \div 2
      \* collidePoint = off / half
      off == b.x - (w.paddle.x + half)
      spinFromVelocity == Frac(w.paddleVelocity * V, PADDLE_VELOCITY_SPIN_FACTOR)
      mult == IF w.isPowerShotMode THEN AI_POWER_SHOT_MULTIPLIER ELSE PADDLE_SPIN_FACTOR
      isFlick == Abs(off) * 100 > 85 * half
      spin == IF isFlick
              THEN RDiv(off * mult * VU * PADDLE_EDGE_BOOST[1], half * PADDLE_EDGE_BOOST[2])
              ELSE RDiv(off * mult * VU, half)
  IN  [ dx |-> spin + spinFromVelocity,
        dy |-> IF isFlick THEN Frac(-b.dy, PADDLE_FLICK_SPEED_BONUS) ELSE -b.dy ]

\* a faulty variant of the guard: dx is not kept away from 0
NoSpinGuard(dx) == dx

\* if (Math.abs(ball.dx) < 0.2) ball.dx = Math.sign(ball.dx || 1) * 0.5
SpinGuard(dx) ==
  IF Abs(dx) * 10 < 2 * VU
  THEN Sign(IF dx # 0 THEN dx ELSE 1) * (VU \div 2)
  ELSE dx

\* a faulty variant of the paddle branch: isStuckRef is left as it is
PaddleBounceKeepsStuck(w) ==
  LET s == PaddleSpin(w)
  IN  [w EXCEPT !.ball.y = paddleTopY - w.ball.radius,
                !.ball.dy = s.dy,
                !.ball.dx = SpinGuard(s.dx),
                !.isPowerShotMode = FALSE,
                !.ev.paddleHit = TRUE,
                !.ev.bounce = [spin |-> s.dx, dx |-> SpinGuard(s.dx), dy |-> s.dy,
                               velocity |-> w.paddleVelocity]]

PaddleBounce(w) ==
  LET s == PaddleSpin(w)
  IN  [w EXCEPT !.isStuck = FALSE,
                !.ball.y = paddleTopY - w.ball.radius,
                !.ball.dy = s.dy,
                !.ball.dx = SpinGuard(s.dx),
                !.isPowerShotMode = FALSE,
                !.ev.paddleHit = TRUE,
                !.ev.bounce = [spin |-> s.dx, dx |-> SpinGuard(s.dx), dy |-> s.dy,
                               velocity |-> w.paddleVelocity]]

\* a faulty variant of the floor branch: the match is lost while a life is left
FloorExitEarly(w, rand) ==
  LET w1 == [w EXCEPT !.lives = @ - 1, !.ev.floorExit = TRUE]
  IN  IF w1.lives <= 1
      THEN [w1 EXCEPT !.setLosing = TRUE,
                      !.timeouts = Append(@, "loss"),
                      !.ev.lossDetected = TRUE]
      ELSE resetBallAndPaddle(w1, rand)

\* the floor branch
FloorExit(w, rand) ==
  LET w1 == [w EXCEPT !.lives = @ - 1, !.ev.floorExit = TRUE]
  IN  IF w1.lives = 0
      THEN [w1 EXCEPT !.setLosing = TRUE,
                      !.timeouts = Append(@, "loss"),
                      !.ev.lossDetected = TRUE]
      ELSE resetBallAndPaddle(w1, rand)

\* the floor check, after the walls and the paddle
FloorCheck(w, rand) ==
  IF w.ball.y - w.ball.radius > CANVAS_HEIGHT THEN FloorExit(w, rand) ELSE w

\* the paddle check, after the walls
PaddleCheck(w) == IF PaddleHits(w) THEN PaddleBounce(w) ELSE w

\* what follows the brick scan; s = [w, total, broken, hit]
AfterScan(s, seenWinning, skill, rand) ==
  IF s.total > 0 /\ s.broken = s.total /\ ~seenWinning
  THEN [s.w EXCEPT !.setWinning = TRUE,
                   !.timeouts = Append(@, "win"),
                   !.ev.winDetected = TRUE]
  ELSE FloorCheck(PaddleCheck(WallBounce(s.w, skill)), rand)

\* collisionDetection as the closure that captured isWinning = seenWinning runs it
collisionDetection(w, seenWinning, skill, rand) ==
  AfterScan(BrickScan([w |-> w, total |-> 0, broken |-> 0, hit |-> FALSE], 0, skill,
                      rand.roulette),
            seenWinning, skill, rand.sign)

\* ------------------------------------------------------------------------
\* AI helpers
\* ------------------------------------------------------------------------
\* a * n / d rounded, computed without leaving the 32-bit range (n >= 0, d > 0)
MulDiv(a, n, d) ==
  Sign(a) * ((Abs(a) \div d) * n + RDiv((Abs(a) % d) * n, d))

\* bricksRef.current.flat(): cells in the order c * BRICK_ROW_COUNT + r
FlatIndex(cell) == cell[1] * BRICK_ROW_COUNT + cell[2]
AliveCells(bs) == {cell \in Cells : bs[cell].status = 1}
\* the first cell of a non-empty set in flat order
FirstCell(S) == CHOOSE cell \in S : \A other \in S : FlatIndex(cell) <= FlatIndex(other)
LastCell(S) == CHOOSE cell \in S : \A other \in S : FlatIndex(cell) >= FlatIndex(other)

\* getDefensiveTargetX: times are kept in thousandths of a frame
TIME_ONE == 1000

RECURSIVE DefensiveLoop(_, _, _, _, _)
DefensiveLoop(simX, simDX, timeToImpact, steps, radius) ==
  IF ~(timeToImpact > 0 /\ steps < 10) THEN simX
  ELSE LET wallDist == IF simDX > 0 THEN CANVAS_WIDTH - radius - simX ELSE simX - radius
           \* simDX = 0 gives an infinite timeToWall
           timeToWall == IF simDX = 0 THEN -1
                         ELSE RDiv(wallDist * V * TIME_ONE, Abs(simDX))
       IN  IF timeToWall >= timeToImpact \/ wallDist <= 0 \/ simDX = 0
           THEN Sat(simX + Sign(simDX) * MulDiv(timeToImpact, Abs(simDX), V * TIME_ONE))
           ELSE DefensiveLoop(simX + Sign(simDX) * MulDiv(timeToWall, Abs(simDX), V * TIME_ONE),
                              -simDX, timeToImpact - timeToWall, steps + 1, radius)

getDefensiveTargetX(b) ==
  IF b.dy * 10 <= VU THEN b.x
  ELSE DefensiveLoop(b.x, b.dx, RDiv((paddleTopY - b.y) * V * TIME_ONE, b.dy), 0, b.radius)

\* projectTrajectory: sim = [x, y, dx, dy, live, bounces, hits]
BrickContains(brick, x, y) ==
  x > brick.x /\ x < brick.x + BRICK_WIDTH /\ y > brick.y /\ y < brick.y + BRICK_HEIGHT

\* the simulated ball at (x, y) is inside a live brick; alive bricks have been
\* drawn, so they lie in the band of the brick rows
InsideLiveBrick(live, bs, x, y) ==
  /\ y > BRICK_OFFSET_TOP
  /\ y < BrickY(BRICK_ROW_COUNT - 1) + BRICK_HEIGHT
  /\ \E cell \in live : BrickContains(bs[cell], x, y)

\* something other than plain motion happens to the simulated ball at (x, y)
SimEvent(live, bs, x, y) ==
  x > CANVAS_WIDTH \/ x < 0 \/ y < 0 \/ y > CANVAS_HEIGHT \/ InsideLiveBrick(live, bs, x, y)

\* the loop of projectTrajectory, taken from one event to the next: between
\* two events the simulated ball only moves; with |dy| fixed the next event
\* comes within CANVAS_HEIGHT / |dy| + 2 steps
RECURSIVE ProjectLoop(_, _, _, _)
ProjectLoop(sim, bs, depth, step) ==
  IF step >= 500 THEN sim
  ELSE
    LET window == 1 .. Min(500 - step, CANVAS_HEIGHT \div Abs(sim.dy) + 2)
        events == {k \in window :
                     SimEvent(sim.live, bs, sim.x + k * sim.dx, sim.y + k * sim.dy)}
        last == Min(500 - step, CANVAS_HEIGHT \div Abs(sim.dy) + 2)
    IN  IF events = {}
        THEN ProjectLoop([sim EXCEPT !.x = sim.x + last * sim.dx, !.y = sim.y + last * sim.dy],
                         bs, depth, step + last)
        ELSE
          LET k == CHOOSE e \in events : \A other \in events : e <= other
              x1 == sim.x + k * sim.dx
              y1 == sim.y + k * sim.dy
              sideHit == x1 > CANVAS_WIDTH \/ x1 < 0
              topHit == y1 < 0
              dx1 == IF sideHit THEN -sim.dx ELSE sim.dx
              dy1 == IF topHit THEN -sim.dy ELSE sim.dy
              b1 == sim.bounces + (IF sideHit THEN 1 ELSE 0) + (IF topHit THEN 1 ELSE 0)
              moved == [sim EXCEPT !.x = x1, !.y = y1, !.dx = dx1, !.dy = dy1, !.bounces = b1]
          IN  IF y1 > CANVAS_HEIGHT THEN moved
              ELSE
                LET touched == {cell \in sim.live : BrickContains(bs[cell], x1, y1)}
                    after == IF touched = {} THEN moved
                             ELSE LET cell == LastCell(touched)
                                  IN  [moved EXCEPT !.hits = Append(@, cell),
                                                    !.live = @ \ {cell},
                                                    !.dy = -dy1,
                                                    !.bounces = b1 + 1]
                IN  IF after.bounces >= depth THEN after
                    ELSE ProjectLoop(after, bs, depth, step + k)

projectTrajectory(startX, startY, startDX, startDY, bs, depth) ==
  LET sim == ProjectLoop([x |-> startX, y |-> startY, dx |-> startDX, dy |-> startDY,
                          live |-> AliveCells(bs), bounces |-> 0, hits |-> <<>>],
                         bs, depth, 0)
  IN  [hits |-> sim.hits, score |-> Len(sim.hits)]

\* runShotSimulations: the value it leaves in strategicPlanRef.current
SimulatedPath(w, angle) ==
  LET requiredPaddleCenter == w.ball.x - RDiv(angle * (w.paddle.width \div 2), 100)
      simDX == RDiv(angle * PADDLE_SPIN_FACTOR * 12 * U, 1000)
      projected == projectTrajectory(w.ball.x, paddleTopY, simDX, BALL_SPEED_Y \div V,
                                     w.bricks, AI_SIMULATION_DEPTH)
  IN  [hits |-> projected.hits, score |-> projected.score,
       requiredPaddleCenter |-> requiredPaddleCenter]

\* paths.forEach((p, i) => { if (p.score > maxScore) ... }): best = [index, maxScore]
RECURSIVE BestPath(_, _, _)
BestPath(paths, i, best) ==
  IF i > Len(paths) THEN best
  ELSE BestPath(paths, i + 1,
                IF paths[i].score > best.maxScore
                THEN [bestPathIndex |-> i, maxScore |-> paths[i].score]
                ELSE best)

\* a faulty variant: a best path that breaks one brick is kept as the plan
PlanOfAnyHit(paths, best) ==
  IF best.maxScore > 0
  THEN [paths |-> paths, bestPathIndex |-> best.bestPathIndex]
  ELSE NoPlan

PlanOf(paths, best) ==
  IF best.maxScore > 1
  THEN [paths |-> paths, bestPathIndex |-> best.bestPathIndex]
  ELSE NoPlan

BestOf(paths) == PlanOf(paths, BestPath(paths, 1, [bestPathIndex |-> 0, maxScore |-> 0]))

\* AI_SIMULATION_ANGLES.map(angle => ...)
SimulatedPaths(w) ==
  [i \in 1 .. Len(AI_SIMULATION_ANGLES) |-> SimulatedPath(w, AI_SIMULATION_ANGLES[i])]

\* the plan left in strategicPlanRef.current, with the scores of the candidates
Simulation(paths) ==
  [plan |-> BestOf(paths), scores |-> [i \in 1 .. Len(paths) |-> paths[i].score]]

NoSimulation == [plan |-> NoPlan, scores |-> <<>>]

runShotSimulations(w) == Simulation(SimulatedPaths(w))

\* findBestTargetBrick: threat scores are doubled to stay integral
ThreatScore(bs, cell) ==
  LET c == RDiv(bs[cell].x - BRICK_OFFSET_LEFT, BRICK_WIDTH + BRICK_PADDING)
      r == RDiv(bs[cell].y - BRICK_OFFSET_TOP, BRICK_HEIGHT + BRICK_PADDING)
      neighbors == {<<c - 1, r>>, <<c + 1, r>>, <<c, r - 1>>, <<c, r + 1>>}
      neighborCount == Cardinality({n \in neighbors : n \in Cells /\ bs[n].status = 1})
  IN  Abs(2 * c - (BRICK_COLUMN_COUNT - 1)) + (4 - neighborCount) * 3

findBestTargetBrick(bs) ==
  LET remaining == {cell \in Cells : bs[cell].status = 1 /\ ~bs[cell].isGolden}
  IN  IF remaining = {} THEN NoBrick
      ELSE LET top == {cell \in remaining :
                         \A other \in remaining : ThreatScore(bs, cell) >= ThreatScore(bs, other)}
           IN  FirstCell(top)

\* (aim.x - ball.x) / ((paddleY - ball.y) / ball.dy), in units per frame;
\* a division by zero gives "Infinity" or NaN
RequiredDX(aimDX, b) ==
  LET dist == paddleTopY - b.y
  IN  IF b.dy = 0 THEN (IF dist = 0 THEN NotANumber ELSE Num(0))
      ELSE IF dist = 0 THEN (IF aimDX = 0 THEN NotANumber ELSE Infinite)
      ELSE Num(Sat(Sign(b.dy) * Sign(dist) * MulDiv(aimDX, Abs(b.dy), Abs(dist))))

\* ------------------------------------------------------------------------
\* draw: the psychological mode and the AI decision block
\* ------------------------------------------------------------------------
isEndGame(bs) ==
  LET remaining == Cardinality(AliveCells(bs))
  IN  remaining > 0 /\ remaining <= AI_END_GAME_BRICK_COUNT

agentMode(w) ==
  IF isEndGame(w.bricks) THEN "finisher"
  ELSE IF w.lives = 1 THEN "clutch"
  ELSE IF w.lives > 2 /\ getProductivity(w) < 40 * 100 /\ w.frameCounter > 180 THEN "grit"
  ELSE "normal"

\* the agent's willingness to gamble for the golden brick;
\* a faulty variant first: the threshold 1.2 itself is enough
wantsToGambleAtThreshold(w, p) ==
  /\ \E cell \in Cells : w.bricks[cell].isGolden /\ w.bricks[cell].status = 1
  /\ w.lives > 1
  /\ IF p.rank = p.totalInstances /\ p.totalInstances > 1 THEN TRUE
     ELSE IF p.rank = 1 /\ p.totalInstances > 1 THEN FALSE
     ELSE w.dynamicAggressionFactor >= (12 * CONF_ONE) \div 10

wantsToGamble(w, p) ==
  /\ \E cell \in Cells : w.bricks[cell].isGolden /\ w.bricks[cell].status = 1
  /\ w.lives > 1
  /\ IF p.rank = p.totalInstances /\ p.totalInstances > 1 THEN TRUE
     ELSE IF p.rank = 1 /\ p.totalInstances > 1 THEN FALSE
     ELSE w.dynamicAggressionFactor > (12 * CONF_ONE) \div 10

\* the paddle centre that sends the ball to the golden brick, or null
GambleTarget(w) ==
  LET b == w.ball
      cell == FirstCell({c \in Cells : w.bricks[c].isGolden /\ w.bricks[c].status = 1})
      aimX == w.bricks[cell].x + BRICK_WIDTH \div 2
      dist == paddleTopY - b.y
      timePositive == IF b.dy = 0 THEN dist > 0 ELSE Sign(dist) * Sign(b.dy) > 0
      requiredDX == RequiredDX(aimX - b.x, b)
  IN  IF ~timePositive THEN None
      ELSE Num(Sat(b.x - MulDiv(requiredDX.v, w.paddle.width \div 2,
                                (PADDLE_SPIN_FACTOR * 15 * VU) \div 10)))

\* remainingBricks.reduce((lowest, current) => current.y > lowest.y ? current : lowest)
LowestBrick(bs) ==
  LET alive == AliveCells(bs)
  IN  FirstCell({cell \in alive : \A other \in alive : bs[cell].y >= bs[other].y})

\* the finisher shot: null, NaN or a paddle centre
FinisherTarget(w) ==
  LET b == w.ball
      cell == LowestBrick(w.bricks)
      aimX == w.bricks[cell].x + BRICK_WIDTH \div 2
      requiredDX == RequiredDX(aimX - b.x, b)
      half == w.paddle.width \div 2
  IN  IF requiredDX = NotANumber THEN NotANumber
      ELSE IF requiredDX = Infinite THEN None
      ELSE LET target == Sat(b.x - MulDiv(requiredDX.v, half, PADDLE_SPIN_FACTOR * VU))
           IN  IF target <= half \/ target >= CANVAS_WIDTH - half THEN None ELSE Num(target)

\* the heuristic target: the option closest to the defensive target, or null
HeuristicTarget(w, cell, defensiveTargetX) ==
  LET b == w.ball
      aimX == w.bricks[cell].x + BRICK_WIDTH \div 2
      aimY == w.bricks[cell].y + BRICK_HEIGHT \div 2
      calculatePaddleCenter(tx) ==
        MulDiv(Sat(Sign(-b.dy) * Sign(aimY - paddleTopY)
                   * MulDiv(tx - b.x, Abs(b.dy), Abs(aimY - paddleTopY))),
               w.paddle.width \div 2, AI_POWER_SHOT_MULTIPLIER * VU)
      virtualTargets == <<aimX, -aimX, 2 * CANVAS_WIDTH - aimX>>
      pos(i) == b.x - calculatePaddleCenter(virtualTargets[i])
      dist(i) == Abs(pos(i) - defensiveTargetX)
      options == {i \in 1 .. 3 : pos(i) > 0 /\ pos(i) < CANVAS_WIDTH}
  IN  IF options = {} THEN None
      ELSE Num(pos(CHOOSE i \in options :
                     \A j \in options : dist(i) < dist(j) \/ (dist(i) = dist(j) /\ i <= j)))

\* Steps 1 to 3 of the decision block: the plan, the offensive target and the
\* current target brick
\* Step 1: the plan, and the offensive target not chosen yet
\* o = [plan, scores, simulated, gamble, kind, x, brick, finisherTried, heuristicTried]
PlanStepWith(simulated, sim) ==
  [ plan |-> sim.plan, scores |-> sim.scores,
    simulated |-> simulated, gamble |-> FALSE, kind |-> NULL, x |-> None,
    brick |-> NoBrick, finisherTried |-> FALSE, heuristicTried |-> FALSE ]

\* a faulty variant of Step 1: the planner runs during the recovery cooldown
PlanStepWhileRecovering(w) ==
  LET simulated == /\ w.ball.dy < 0
                   /\ w.ball.y < AI_STRATEGIC_PLANNING_THRESHOLD_Y
                   /\ ~w.isStuck
  IN  PlanStepWith(simulated, IF simulated THEN runShotSimulations(w) ELSE NoSimulation)

PlanStep(w) ==
  LET simulated == /\ w.ball.dy < 0
                   /\ w.ball.y < AI_STRATEGIC_PLANNING_THRESHOLD_Y
                   /\ w.recoveringFromStuckCounter = 0
                   /\ ~w.isStuck
  IN  PlanStepWith(simulated, IF simulated THEN runShotSimulations(w) ELSE NoSimulation)

\* offensiveTargetX = target, when the step found one
SetTarget(o, kind, target) ==
  IF target = None THEN o ELSE [o EXCEPT !.x = target, !.kind = kind]

\* Step 3: the golden brick
GoldenCell(bs) == FirstCell({c \in Cells : bs[c].isGolden /\ bs[c].status = 1})

GambleStep(w, p, o) ==
  IF wantsToGamble(w, p)
  THEN SetTarget([o EXCEPT !.gamble = TRUE, !.brick = GoldenCell(w.bricks)],
                 "gamble", GambleTarget(w))
  ELSE o

\* the best simulated shot
PlannedStep(o) ==
  IF o.x = None /\ o.plan # NoPlan
  THEN [o EXCEPT !.x = Num(o.plan.paths[o.plan.bestPathIndex].requiredPaddleCenter),
                 !.kind = "planned"]
  ELSE o

\* the finisher shot of the end-game
FinisherStep(w, o) ==
  IF /\ o.x = None
     /\ o.plan = NoPlan
     /\ w.recoveringFromStuckCounter = 0
     /\ isEndGame(w.bricks)
  THEN SetTarget([o EXCEPT !.finisherTried = TRUE, !.brick = LowestBrick(w.bricks)],
                 "finisher", FinisherTarget(w))
  ELSE o

\* the next-best regular brick
BestTargetStep(w, o, defensiveTargetX, bestTarget) ==
  IF bestTarget = NoBrick THEN o
  ELSE SetTarget([o EXCEPT !.brick = bestTarget],
                 "heuristic", HeuristicTarget(w, bestTarget, defensiveTargetX))

HeuristicStep(w, o, defensiveTargetX) ==
  IF o.x = None /\ w.recoveringFromStuckCounter = 0 /\ o.plan = NoPlan
  THEN BestTargetStep(w, [o EXCEPT !.heuristicTried = TRUE], defensiveTargetX,
                      findBestTargetBrick(w.bricks))
  ELSE o

\* Steps 1 and 3: strategicPlanRef, wantsToGamble, offensiveTargetX (x) and
\* currentTargetBrickRef (brick)
OffensiveChoice(w, p, defensiveTargetX) ==
  HeuristicStep(w, FinisherStep(w, PlannedStep(GambleStep(w, p, PlanStep(w)))),
                defensiveTargetX)

\* a faulty variant of the confidence: the last life makes the agent bold
decisionConfidenceBoldClutch(w, p, mode) ==
  LET base == IF mode = "finisher" THEN 2 * CONF_ONE
              ELSE IF mode = "grit" THEN (15 * CONF_ONE) \div 10
              ELSE IF mode = "clutch" THEN (15 * CONF_ONE) \div 10
              ELSE w.dynamicAggressionFactor
      champion == IF p.rank = 1 /\ p.totalInstances > 1 THEN RDiv(base * 11, 10) ELSE base
  IN  IF p.rank = p.totalInstances /\ p.totalInstances > 1
      THEN Max(champion, (14 * CONF_ONE) \div 10)
      ELSE champion

\* decisionConfidence, in 1/CONF_ONE
decisionConfidence(w, p, mode) ==
  LET base == IF mode = "finisher" THEN 2 * CONF_ONE
              ELSE IF mode = "grit" THEN (15 * CONF_ONE) \div 10
              ELSE IF mode = "clutch" THEN (5 * CONF_ONE) \div 10
              ELSE w.dynamicAggressionFactor
      champion == IF p.rank = 1 /\ p.totalInstances > 1 THEN RDiv(base * 11, 10) ELSE base
  IN  IF p.rank = p.totalInstances /\ p.totalInstances > 1
      THEN Max(champion, (14 * CONF_ONE) \div 10)
      ELSE champion

\* Step 4: the final target; d = [kind, x, accepted, useFlickShot, confidence]
FinalTarget(w, p, mode, defensiveTargetX, off) ==
  LET b == w.ball
      pad == w.paddle
      half == pad.width \div 2
      isRecovering == w.recoveringFromStuckCounter > 0
      safeZone == (pad.width * 7) \div 10
      flickDefence == ~w.isStuck /\ Abs(defensiveTargetX - (pad.x + half)) * 2 > safeZone
      flickTargetX == IF defensiveTargetX > pad.x + half
                      THEN defensiveTargetX - half + pad.width \div 10
                      ELSE defensiveTargetX + half - pad.width \div 10
      stuckOverride == w.isStuck /\ ~isRecovering
      flickDirection == IF Sign(CANVAS_WIDTH \div 2 - b.x) # 0
                        THEN Sign(CANVAS_WIDTH \div 2 - b.x) ELSE 1
      \* every comparison with NaN is false
      considered == /\ ~stuckOverride /\ ~isRecovering /\ ~flickDefence
                    /\ off.x # None /\ off.x # NotANumber
      riskFactor == MulDiv(Sat(Abs(off.x.v - defensiveTargetX)), CONF_ONE, (CANVAS_WIDTH * 3) \div 4)
  IN  IF stuckOverride
      THEN [ kind |-> "stuck", accepted |-> FALSE, useFlickShot |-> TRUE,
             x |-> defensiveTargetX - ((half * 9) \div 10) * flickDirection ]
      ELSE IF considered /\ decisionConfidence(w, p, mode) > (7 * CONF_ONE) \div 10 + riskFactor
      THEN [ kind |-> off.kind, accepted |-> TRUE, useFlickShot |-> FALSE, x |-> off.x.v ]
      ELSE IF flickDefence
      THEN [ kind |-> "flick", accepted |-> FALSE, useFlickShot |-> TRUE, x |-> flickTargetX ]
      ELSE [ kind |-> "defensive", accepted |-> FALSE, useFlickShot |-> FALSE,
             x |-> defensiveTargetX ]

\* jitter = (Math.random() - 0.5) * jitterMagnitude; rand models Math.random() in hundredths
Jitter(w, p, rand) ==
  IF w.ball.dy > 0 /\ w.ball.y > paddleTopY - 50 * U
  THEN RDiv((rand - 50) * AI_PADDLE_JITTER_AMOUNT * SKILL_ONE, 100 * p.initialSkillLevel)
  ELSE 0

\* a faulty variant of the clamp: the paddle keeps the position the easing gave it
UnclampedPaddleX(x, width) == x

\* paddle.x = Math.max(0, Math.min(CANVAS_WIDTH - paddle.width, paddle.x))
ClampPaddleX(x, width) == Max(0, Min(CANVAS_WIDTH - width, x))

\* Step 5: the paddle moves towards the final target
ExecutePaddleMovement(w, p, mode, rand, defensiveTargetX, off, d) ==
  LET pad == w.paddle
      easingNum == AI_PADDLE_EASING[1] * p.initialSkillLevel
                   * (IF mode = "grit" \/ d.useFlickShot \/ mode = "finisher" THEN 15 ELSE 10)
      easingDen == AI_PADDLE_EASING[2] * SKILL_ONE * 10
      moved == pad.x + MulDiv(Sat(d.x + Jitter(w, p, rand) - (pad.x + pad.width \div 2)),
                              easingNum, easingDen)
  IN  [w EXCEPT !.strategicPlan = off.plan,
                !.currentTargetBrick = off.brick,
                !.isPowerShotMode = IF d.accepted
                                    THEN (IF off.plan # NoPlan
                                          THEN off.plan.paths[off.plan.bestPathIndex].score > 2
                                          ELSE TRUE)
                                    ELSE FALSE,
                !.paddle.x = ClampPaddleX(moved, pad.width),
                !.ev.simulated = off.simulated,
                !.ev.simScores = off.scores,
                !.ev.wantsToGamble = off.gamble,
                !.ev.offensiveKind = off.kind,
                !.ev.offensiveTargetX = off.x,
                !.ev.defensiveTargetX = defensiveTargetX,
                !.ev.finalKind = d.kind,
                !.ev.finalTargetX = d.x,
                !.ev.decisionConfidence = decisionConfidence(w, p, mode)]

DecideWithOffensive(w, p, mode, rand, defensiveTargetX, off) ==
  ExecutePaddleMovement(w, p, mode, rand, defensiveTargetX, off,
                        FinalTarget(w, p, mode, defensiveTargetX, off))

DecideWithDefensive(w, p, mode, rand, defensiveTargetX) ==
  DecideWithOffensive(w, p, mode, rand, defensiveTargetX,
                      OffensiveChoice(w, p, defensiveTargetX))

\* the AI decision block
AIDecision(w, p, mode, rand) ==
  DecideWithDefensive(w, p, mode, rand, getDefensiveTargetX(w.ball))

\* a faulty variant of the counters: the timer runs out and the flag stays
FrameCountersKeepFlag(w) ==
  LET b == w.ball
      timer == b.powerBallTimer - 1
  IN  [w EXCEPT !.frameCounter = @ + 1,
                !.recoveringFromStuckCounter = IF @ > 0 THEN @ - 1 ELSE @,
                !.ball = IF b.powerBallTimer > 0
                         THEN [b EXCEPT !.powerBallTimer = timer]
                         ELSE b]

\* ------------------------------------------------------------------------
\* draw: the other steps of a frame
\* ------------------------------------------------------------------------
\* frameCounter++, the recovery countdown and the power-ball countdown
FrameCounters(w) ==
  LET b == w.ball
      timer == b.powerBallTimer - 1
      speed == ballSpeed(b)
      expired == IF speed * 10 > MAX_BALL_SPEED * 8
                 THEN [b EXCEPT !.powerBallTimer = 0, !.isPowerBall = FALSE,
                                !.dx = RDiv(b.dx * (MIN_BALL_SPEED + 2 * VU), speed),
                                !.dy = RDiv(b.dy * (MIN_BALL_SPEED + 2 * VU), speed)]
                 ELSE [b EXCEPT !.powerBallTimer = 0, !.isPowerBall = FALSE]
  IN  [w EXCEPT !.frameCounter = @ + 1,
                !.recoveringFromStuckCounter = IF @ > 0 THEN @ - 1 ELSE @,
                !.ball = IF b.powerBallTimer > 0
                         THEN (IF timer = 0 THEN expired ELSE [b EXCEPT !.powerBallTimer = timer])
                         ELSE b]

\* paddleVelocityRef / prevPaddleXRef
PaddleVelocity(w) ==
  [w EXCEPT !.paddleVelocity = w.paddle.x - w.prevPaddleX,
            !.prevPaddleX = w.paddle.x]

\* drawBricks gives every alive brick its pixel position
drawBricks(bs) ==
  [cell \in Cells |->
     IF bs[cell].status = 1
     THEN [bs[cell] EXCEPT !.x = BrickX(cell[1]), !.y = BrickY(cell[2])]
     ELSE bs[cell]]

\* loop detection
\* Math.min(...values), Math.max(...values)
SetMin(S) == CHOOSE v \in S : \A u \in S : v <= u
SetMax(S) == CHOOSE v \in S : \A u \in S : v >= u

IsConfined(history) ==
  LET xs == {history[i].x : i \in 1 .. Len(history)}
      ys == {history[i].y : i \in 1 .. Len(history)}
  IN  /\ SetMax(xs) - SetMin(xs) < AI_LOOP_DETECTION_BOX_SIZE
      /\ SetMax(ys) - SetMin(ys) < AI_LOOP_DETECTION_BOX_SIZE

\* a faulty variant of the detector's guard: isStuck and the cooldown are ignored
LoopDetectorAlwaysArmed(w, history) ==
  Len(history) = AI_LOOP_DETECTION_HISTORY_LENGTH

\* the guard of the detector, on the history after the push
LoopDetectorArmed(w, history) ==
  ~w.isStuck /\ w.recoveringFromStuckCounter = 0
  /\ Len(history) = AI_LOOP_DETECTION_HISTORY_LENGTH

\* a faulty variant of the detector: a declaration starts no cooldown
LoopDetectionNoCooldown(w) ==
  LET pushed == Append(w.ballPositionHistory, [x |-> w.ball.x, y |-> w.ball.y])
      history == IF Len(pushed) > AI_LOOP_DETECTION_HISTORY_LENGTH THEN Tail(pushed) ELSE pushed
      framesSinceLastBreak == w.frameCounter - w.lastBrickBreakFrame
      w1 == [w EXCEPT !.ballPositionHistory = history,
                      !.ev.stuckAtDetect = w.isStuck,
                      !.ev.recoveringAtDetect = w.recoveringFromStuckCounter,
                      !.ev.conditionAtDetect =
                         /\ Len(history) = AI_LOOP_DETECTION_HISTORY_LENGTH
                         /\ framesSinceLastBreak > AI_STUCK_FRAMES_THRESHOLD
                         /\ IsConfined(history)]
  IN  IF /\ LoopDetectorArmed(w, history)
         /\ framesSinceLastBreak > AI_STUCK_FRAMES_THRESHOLD
         /\ IsConfined(history)
      THEN [w1 EXCEPT !.ballPositionHistory = <<>>,
                      !.ev.stuckDeclared = TRUE,
                      !.ev.stuckDeclarations = @ + 1,
                      !.ev.lastStuckFrame = w.frameCounter]
      ELSE w1

\* the loop detection of draw
LoopDetection(w) ==
  LET pushed == Append(w.ballPositionHistory, [x |-> w.ball.x, y |-> w.ball.y])
      history == IF Len(pushed) > AI_LOOP_DETECTION_HISTORY_LENGTH THEN Tail(pushed) ELSE pushed
      framesSinceLastBreak == w.frameCounter - w.lastBrickBreakFrame
      w1 == [w EXCEPT !.ballPositionHistory = history,
                      !.ev.stuckAtDetect = w.isStuck,
                      !.ev.recoveringAtDetect = w.recoveringFromStuckCounter,
                      !.ev.conditionAtDetect =
                         /\ Len(history) = AI_LOOP_DETECTION_HISTORY_LENGTH
                         /\ framesSinceLastBreak > AI_STUCK_FRAMES_THRESHOLD
                         /\ IsConfined(history)]
  IN  IF /\ LoopDetectorArmed(w, history)
         /\ framesSinceLastBreak > AI_STUCK_FRAMES_THRESHOLD
         /\ IsConfined(history)
      THEN [w1 EXCEPT !.isStuck = TRUE,
                      !.recoveringFromStuckCounter = AI_RECOVERY_FRAMES,
                      !.ballPositionHistory = <<>>,
                      !.ev.stuckDeclared = TRUE,
                      !.ev.stuckDeclarations = @ + 1,
                      !.ev.lastStuckFrame = w.frameCounter]
      ELSE w1

\* integrate, apply friction, rescale a slow ball
MoveBall(b) ==
  LET dx1 == Frac(b.dx, BALL_FRICTION)
      dy1 == Frac(b.dy, BALL_FRICTION)
      speed == Hypot(dx1, dy1)
  IN  IF speed < MIN_BALL_SPEED /\ speed > 0
      THEN [b EXCEPT !.x = b.x + RDiv(b.dx, V), !.y = b.y + RDiv(b.dy, V),
                     !.dx = RDiv(dx1 * MIN_BALL_SPEED, speed),
                     !.dy = RDiv(dy1 * MIN_BALL_SPEED, speed)]
      ELSE [b EXCEPT !.x = b.x + RDiv(b.dx, V), !.y = b.y + RDiv(b.dy, V), !.dx = dx1, !.dy = dy1]

\* the physics step at the end of draw, as the closure that captured
\* isWinning = seenWinning, isLosing = seenLosing runs it
PhysicsStep(w, seenWinning, seenLosing, p, rand) ==
  IF ~seenWinning /\ ~seenLosing
  THEN collisionDetection([w EXCEPT !.ball = MoveBall(w.ball), !.ev.physics = TRUE],
                          seenWinning, p.initialSkillLevel, rand)
  ELSE w

\* the start of draw: counters, paddle velocity, drawBricks
FrameStart(w) ==
  [PaddleVelocity(FrameCounters(w)) EXCEPT !.bricks = drawBricks(@)]

\* the psychological mode and the AI decision block
Seen(w) ==
  [lives |-> w.lives, aggression |-> w.dynamicAggressionFactor,
   productivity |-> getProductivity(w), frame |-> w.frameCounter, ball |-> w.ball]

AgentStep(w, p, mode, rand) ==
  IF p.isAIEnabled
  THEN AIDecision([w EXCEPT !.ev.agentMode = mode, !.ev.bricksBefore = w.bricks,
                            !.ev.seen = Seen(w)], p, mode, rand)
  ELSE [w EXCEPT !.ev.agentMode = mode, !.ev.bricksBefore = w.bricks, !.ev.seen = Seen(w)]

AgentFrame(w, p, rand) == AgentStep(w, p, agentMode(w), rand)

\* one call of draw; rand = [jitter, roulette, sign] are the values of Math.random()
DrawFrame(w, seenWinning, seenLosing, p, rand) ==
  PhysicsStep(
    LoopDetection(
      AgentFrame(
        FrameStart([w EXCEPT !.ev = [NoEvent("draw") EXCEPT
                                       !.powerAtStart = w.ball.isPowerBall,
                                       !.stuckDeclarations = w.ev.stuckDeclarations,
                                       !.lastStuckFrame = w.ev.lastStuckFrame,
                                       !.previousStuckFrame = w.ev.lastStuckFrame]]),
        p, rand.jitter)),
    seenWinning, seenLosing, p, rand)

\* ------------------------------------------------------------------------
\* Bounds
\* ------------------------------------------------------------------------
\* frames drawn while the closures see an active match
MaxPlayFrames == 14
\* frames drawn after the closures have seen isWinning / isLosing
MaxWonFrames == 3
MaxLostFrames == 153
\* frames drawn between a setIsWinning / setIsLosing call and its render
MaxStaleFrames == 2
\* paddle jitter values drawn freely (later draws take Math.random() = 0.5)
MaxJitterDraws == 1

\* onGameEnd calls followed in the specification of App alone
MaxReports == 2

\* Math.random() in hundredths, where the code draws it
JitterDraws == {0, 50, 99}
RouletteDraws == {10, 40, 80}
SignDraws == {50, 51}
LayoutDraws == 1 .. Len(LEVEL_LAYOUTS)
\* Math.random() (in hundredths) of the golden brick's choice
GoldenDraws == {0, 99}

\* ------------------------------------------------------------------------
\* Matches in progress
\* ------------------------------------------------------------------------
\* GameProps as App passes them
GameProps(initialLives, skill, rank) ==
  [ instanceId |-> rank - 1,
    initialLives |-> initialLives, initialSkillLevel |-> skill, rank |-> rank,
    totalInstances |-> SIMULATION_GAME_COUNT, isAIEnabled |-> TRUE ]

\* ------------------------------------------------------------------------
\* App: the instance records and handleGameEnd
\* ------------------------------------------------------------------------
\* the fields of a GameInstance record the model follows (key, strategy,
\* skillLevel, careerProductivity and totalWinTime are left out)
initializeInstances ==
  [i \in 0 .. SIMULATION_GAME_COUNT - 1 |->
     [ id |-> i, initialLives |-> INITIAL_LIVES, gamesPlayed |-> 0, gamesWon |-> 0,
       totalProductiveHits |-> 0, totalNonProductiveHits |-> 0 ]]

\* the records of App while the instance with props p plays: an instance that
\* starts with other than INITIAL_LIVES lives has won its previous match
InstancesOf(p) ==
  [initializeInstances EXCEPT ![p.instanceId] =
     IF p.initialLives = INITIAL_LIVES THEN @
     ELSE [@ EXCEPT !.initialLives = p.initialLives, !.gamesPlayed = 1, !.gamesWon = 1]]

\* a faulty variant: the bonus life is not capped
nextInitialLivesUncapped(result, remainingLives) ==
  IF result = "win" THEN remainingLives + 1 ELSE INITIAL_LIVES

\* let nextInitialLives = INITIAL_LIVES; if (result === 'win') ... Math.min(...)
nextInitialLives(result, remainingLives) ==
  IF result = "win"
  THEN (IF INITIAL_LIVES + 1 < remainingLives + 1 THEN INITIAL_LIVES + 1 ELSE remainingLives + 1)
  ELSE INITIAL_LIVES

\* setGameInstances(prevInstances => prevInstances.map(...)) of handleGameEnd;
\* r is the report: instanceId, result, remainingLives, productiveHits, nonProductiveHits
handleGameEnd(prevInstances, r) ==
  [i \in DOMAIN prevInstances |->
     LET instance == prevInstances[i]
     IN  IF instance.id = r.instanceId
         THEN [instance EXCEPT
                 !.initialLives = nextInitialLives(r.result, r.remainingLives),
                 !.gamesPlayed = @ + 1,
                 !.gamesWon = IF r.result = "win" THEN @ + 1 ELSE @,
                 !.totalProductiveHits = @ + r.productiveHits,
                 !.totalNonProductiveHits = @ + r.nonProductiveHits]
         ELSE instance]

\* v folded into [lo, hi] by reflection at both ends
Reflect(v, lo, hi) ==
  LET span == hi - lo
      m == (v - lo) % (2 * span)
  IN  lo + (IF m <= span THEN m ELSE 2 * span - m)

\* where a ball now at b was k frames ago, bouncing between the walls and the paddle line
PastPosition(b, k) ==
  [ x |-> Reflect(b.x - k * RDiv(b.dx, V), b.radius, CANVAS_WIDTH - b.radius),
    y |-> Reflect(b.y - k * RDiv(b.dy, V), b.radius, paddleTopY - b.radius) ]

PastHistory(b) ==
  [i \in 1 .. AI_LOOP_DETECTION_HISTORY_LENGTH |->
     PastPosition(b, AI_LOOP_DETECTION_HISTORY_LENGTH + 1 - i)]

\* the bricks of a match in progress: every brick of the layout has been drawn
PlayedBricks(layout, alive, goldenCell) ==
  [cell \in Cells |->
     IF HasBrick(layout, cell[1], cell[2])
     THEN [ x |-> BrickX(cell[1]), y |-> BrickY(cell[2]),
            status |-> IF cell \in alive THEN 1 ELSE 0,
            isGolden |-> (cell = goldenCell) ]
     ELSE [ x |-> 0, y |-> 0, status |-> 0, isGolden |-> FALSE ]]

MovingBall(x, y, dx, dy, timer) ==
  [ x |-> x, y |-> y, dx |-> dx, dy |-> dy, radius |-> BALL_RADIUS,
    isPowerBall |-> (timer > 0), powerBallTimer |-> timer ]

\* the state at the start of a match (the init effect)
MatchStart(p, layout, goldenRand, rand) ==
  [ props |-> p, ball |-> resetBall(rand),
    paddle |-> [x |-> (CANVAS_WIDTH - PADDLE_WIDTH) \div 2, width |-> PADDLE_WIDTH],
    prevPaddleX |-> (CANVAS_WIDTH - PADDLE_WIDTH) \div 2, paddleVelocity |-> 0,
    bricks |-> createBricks(layout, goldenRand),
    score |-> 0, lives |-> p.initialLives, isPowerShotMode |-> FALSE,
    frameCounter |-> 0, lastBrickBreakFrame |-> 0, ballPositionHistory |-> <<>>,
    recoveringFromStuckCounter |-> 0, isStuck |-> FALSE,
    productiveHits |-> 0, nonProductiveHits |-> 0,
    dynamicAggressionFactor |-> CONF_ONE, jackpotsThisGame |-> 0 ]

\* a match after frame `frame`, with the bricks `alive` left, `sinceBreak`
\* frames after the last brick broke
MidMatch(p, layout, alive, goldenCell, b, paddleX, livesLeft, frame, sinceBreak, wallHits, conf) ==
  LET broken == Cardinality(LayoutCells(layout) \ alive)
  IN  [ props |-> p, ball |-> b,
        paddle |-> [x |-> paddleX, width |-> PADDLE_WIDTH],
        prevPaddleX |-> paddleX, paddleVelocity |-> 0,
        bricks |-> PlayedBricks(layout, alive, goldenCell),
        score |-> POINTS_PER_BRICK * broken, lives |-> livesLeft, isPowerShotMode |-> FALSE,
        frameCounter |-> frame, lastBrickBreakFrame |-> frame - sinceBreak,
        ballPositionHistory |-> PastHistory(b),
        recoveringFromStuckCounter |-> 0, isStuck |-> FALSE,
        productiveHits |-> broken, nonProductiveHits |-> wallHits,
        dynamicAggressionFactor |-> conf, jackpotsThisGame |-> 0 ]

\* the matches the model starts from: every layout at its start, and matches in
\* progress at the moments the properties are about
Matches ==
  LET
      PropsA == GameProps(3, 100, 3)
      PropsB == GameProps(4, 70, 1)
      PropsC == GameProps(2, 200, 6)

      \* one brick left, the ball three frames below it
      LastBrickMatches ==
        { MidMatch(pl[1], 1, {<<4, 4>>}, g, MovingBall(200 * U, 110 * U, 2 * VU, -6 * VU, 0),
                   170 * U, pl[2], 400, 30, 12, CONF_ONE) :
            pl \in {<<PropsA, 3>>, <<PropsC, 1>>}, g \in {<<4, 4>>, <<0, 0>>} }

      \* the ball rising into the gap between two bricks, as a normal and as a power ball
      TwoBrickMatches ==
        { MidMatch(PropsA, 1, {<<4, 4>>, <<5, 4>>}, <<0, 0>>,
                   MovingBall(219 * U, 110 * U, VU \div 2, -6 * VU, timer), 170 * U, 2, 400, 30, 12, CONF_ONE) :
            timer \in {0, 100} }

      \* the golden brick alive in a row with other bricks
      GoldenRowMatches ==
        { MidMatch(p, 1, {<<2, 4>>, <<4, 4>>, <<6, 4>>, <<4, 3>>}, <<4, 4>>, b, 170 * U, 2, 400, 30, 3,
                   conf) :
            p \in {PropsA, PropsB},
            conf \in {(12 * CONF_ONE) \div 10, (15 * CONF_ONE) \div 10},
            b \in { MovingBall(200 * U, 110 * U, 2 * VU, -6 * VU, 0),
                    MovingBall(188 * U, 110 * U, BALL_SPEED_X, BALL_SPEED_Y, 0) } }

      \* the ball coming down on the paddle
      PaddleMatches ==
        { MidMatch(PropsA, 3, LayoutCells(3) \ {<<4, 4>>, <<4, 3>>}, <<4, 0>>,
                   MovingBall(120 * U, 240 * U, dx, 6 * VU, 0), px, 2, 400, 200, 20, CONF_ONE) :
            dx \in {-3 * VU, (45 * VU) \div 10}, px \in {90 * U, 300 * U} }

      \* the last life, the ball coming down slowly sideways onto the paddle's centre
      CentreMatches ==
        { MidMatch(pp[1], 3, LayoutCells(3) \ {<<4, 4>>, <<4, 3>>}, <<4, 0>>,
                   MovingBall(200 * U, 253 * U, -(VU \div 2), 6 * VU, 0), pp[2], 1, 400, 200, 20, CONF_ONE) :
            pp \in {<<PropsA, 168 * U>>, <<PropsA, 169 * U>>, <<PropsB, 168 * U>>} }

      \* the ball passing the paddle line away from the paddle, as a power ball too
      MissMatches ==
        { MidMatch(pl[1], 4, LayoutCells(4) \ {<<0, 4>>}, <<8, 0>>,
                   MovingBall(50 * U, 270 * U, -VU, 6 * VU, pl[3]), 300 * U, pl[2], 400, 200, 20,
                   (5 * CONF_ONE) \div 10) :
            pl \in {<<PropsA, 1, 0>>, <<PropsA, 2, 0>>, <<PropsA, 2, 100>>, <<PropsB, 1, 0>>} }

      \* a power ball about to expire
      PowerBallMatches ==
        { MidMatch(PropsA, 2, LayoutCells(2) \ {<<4, 4>>, <<4, 3>>}, <<4, 3>>,
                   MovingBall(200 * U, 150 * U, 6 * VU, (-64 * VU) \div 10, timer), 170 * U, 3, 400, 30, 5, CONF_ONE) :
            timer \in {1, 2} }

      \* the ball about to bounce off the top wall, off a side wall
      WallMatches ==
        { MidMatch(PropsC, 5, LayoutCells(5) \ {<<0, 0>>}, <<8, 4>>, b, 170 * U, 2, 400, 100, 5, conf) :
            conf \in {CONF_ONE, (5 * CONF_ONE) \div 10},
            b \in { MovingBall(20 * U, 12 * U, -5 * VU, -6 * VU, 0),
                    MovingBall(390 * U, 150 * U, 6 * VU, -6 * VU, 0) } }

      StartMatches ==
        { MatchStart(p, layout, goldenRand, rand) :
            p \in {PropsA, PropsB, PropsC}, layout \in LayoutDraws,
            goldenRand \in GoldenDraws, rand \in SignDraws }
  IN
    StartMatches \cup LastBrickMatches \cup TwoBrickMatches \cup GoldenRowMatches
    \cup PaddleMatches \cup CentreMatches \cup MissMatches \cup PowerBallMatches \cup WallMatches

\* the match m, `since` frames after loop detection declared stuck
StuckMatch(m, since) ==
  [m EXCEPT !.isStuck = TRUE,
            !.recoveringFromStuckCounter = Max(AI_RECOVERY_FRAMES - since, 0),
            !.ballPositionHistory =
               SubSeq(@, Len(@) + 1 - Min(since, Len(@)), Len(@))]

\* the match m, `since` frames after the declaration, the ball having met the
\* paddle since: the cooldown is running and the agent is not stuck any more
RecoveringMatch(m, since) == [StuckMatch(m, since) EXCEPT !.isStuck = FALSE]

\* matches in which the agent is stuck or recovering while the ball is in play,
\* early in the recovery cooldown, at its end and after it: the ball coming
\* down onto the paddle, the ball passing the paddle line away from the paddle,
\* the ball coming down with a gamble in reach, and the ball going up above
\* the planning threshold
StuckMatches ==
  LET PropsA == GameProps(3, 100, 3)
      PropsC == GameProps(2, 200, 6)
      Gamble(since) ==
        { MidMatch(PropsC, 1, LayoutCells(1) \ {<<4, 3>>}, <<4, 4>>,
                   MovingBall(200 * U, 150 * U, VU, 6 * VU, 0), 191 * U, 2,
                   400 + since, 200 + since, 20, CONF_ONE) }
      Rising(since) ==
        { MidMatch(PropsA, 1, LayoutCells(1) \ {<<4, 4>>}, <<0, 0>>,
                   MovingBall(200 * U, 220 * U, 2 * VU, -6 * VU, 0), 170 * U, 2,
                   400 + since, 200 + since, 20, CONF_ONE) }
      OntoPaddle(since) ==
        { MidMatch(PropsA, 3, LayoutCells(3) \ {<<4, 4>>, <<4, 3>>}, <<4, 0>>,
                   MovingBall(120 * U, 240 * U, dx, 6 * VU, 0), px, 2,
                   400 + since, 200 + since, 20, CONF_ONE) :
            dx \in {-3 * VU, (45 * VU) \div 10}, px \in {90 * U, 300 * U} }
      PastPaddle(since) ==
        { MidMatch(PropsA, 4, LayoutCells(4) \ {<<0, 4>>}, <<8, 0>>,
                   MovingBall(50 * U, 270 * U, -VU, 6 * VU, 0), 300 * U, livesLeft,
                   400 + since, 200 + since, 20, (5 * CONF_ONE) \div 10) :
            livesLeft \in {1, 2} }
  IN  UNION { { StuckMatch(m, since) :
                  m \in OntoPaddle(since) \cup PastPaddle(since) \cup Gamble(since)
                        \cup Rising(since) } :
              since \in {5, AI_RECOVERY_FRAMES - 2, 2 * AI_RECOVERY_FRAMES} }
      \cup
      UNION { { RecoveringMatch(m, since) : m \in Gamble(since) \cup Rising(since) } :
              since \in {5, AI_RECOVERY_FRAMES - 2} }

\* ------------------------------------------------------------------------
\* The state machine
\* ------------------------------------------------------------------------
\* the refs and the component state of the match m
StartFrom(m) ==
  /\ props = m.props
  /\ ball = m.ball
  /\ paddle = m.paddle
  /\ prevPaddleX = m.prevPaddleX
  /\ paddleVelocity = m.paddleVelocity
  /\ bricks = m.bricks
  /\ score = m.score
  /\ lives = m.lives
  /\ isPowerShotMode = m.isPowerShotMode
  /\ frameCounter = m.frameCounter
  /\ lastBrickBreakFrame = m.lastBrickBreakFrame
  /\ ballPositionHistory = m.ballPositionHistory
  /\ recoveringFromStuckCounter = m.recoveringFromStuckCounter
  /\ isStuck = m.isStuck
  /\ productiveHits = m.productiveHits
  /\ nonProductiveHits = m.nonProductiveHits
  /\ dynamicAggressionFactor = m.dynamicAggressionFactor
  /\ currentTargetBrick = NoBrick
  /\ strategicPlan = NoPlan
  /\ jackpotsThisGame = m.jackpotsThisGame
  /\ isWinning = FALSE
  /\ isLosing = FALSE
  /\ setWinning = FALSE
  /\ setLosing = FALSE
  /\ timeouts = <<>>
  /\ gameEnds = <<>>
  /\ instances = InstancesOf(m.props)
  /\ mounted = TRUE
  /\ playFrames = 0
  /\ settleFrames = 0
  /\ staleFrames = 0
  /\ jitterDraws = 0
  /\ ev = [NoEvent("init") EXCEPT !.bricksBefore = m.bricks]

Init == \E m \in Matches : StartFrom(m)

\* the refs after a frame
Commit(w) ==
  /\ ball' = w.ball
  /\ paddle' = w.paddle
  /\ prevPaddleX' = w.prevPaddleX
  /\ paddleVelocity' = w.paddleVelocity
  /\ bricks' = w.bricks
  /\ score' = w.score
  /\ lives' = w.lives
  /\ isPowerShotMode' = w.isPowerShotMode
  /\ frameCounter' = w.frameCounter
  /\ lastBrickBreakFrame' = w.lastBrickBreakFrame
  /\ ballPositionHistory' = w.ballPositionHistory
  /\ recoveringFromStuckCounter' = w.recoveringFromStuckCounter
  /\ isStuck' = w.isStuck
  /\ productiveHits' = w.productiveHits
  /\ nonProductiveHits' = w.nonProductiveHits
  /\ dynamicAggressionFactor' = w.dynamicAggressionFactor
  /\ currentTargetBrick' = w.currentTargetBrick
  /\ strategicPlan' = w.strategicPlan
  /\ jackpotsThisGame' = w.jackpotsThisGame
  /\ setWinning' = w.setWinning
  /\ setLosing' = w.setLosing
  /\ timeouts' = w.timeouts
  /\ ev' = w.ev

\* the frame draws a jitter value
JitterApplies ==
  props.isAIEnabled /\ ball.dy > 0 /\ ball.y > paddleTopY - 50 * U

JitterChoices ==
  IF JitterApplies /\ jitterDraws < MaxJitterDraws THEN JitterDraws ELSE {50}

\* a state update is waiting for its render
RenderPending == isWinning # setWinning \/ isLosing # setLosing

\* the frames a closure can draw with jitter value j: `base` is the frame for
\* the first roulette and sign values, which shows whether the frame drew them
FramesWith(base, seenWinning, seenLosing, j, r0, s0) ==
  IF base.ev.roulette = NULL /\ ~base.ev.floorExit THEN {base}
  ELSE { DrawFrame(World, seenWinning, seenLosing, props,
                   [jitter |-> j, roulette |-> r, sign |-> sg]) :
           r \in (IF base.ev.roulette = NULL THEN {r0} ELSE RouletteDraws),
           sg \in (IF base.ev.floorExit THEN SignDraws ELSE {s0}) }

FramesFrom(seenWinning, seenLosing, r0, s0) ==
  UNION { FramesWith(DrawFrame(World, seenWinning, seenLosing, props,
                               [jitter |-> j, roulette |-> r0, sign |-> s0]),
                     seenWinning, seenLosing, j, r0, s0)
          : j \in JitterChoices }

\* the frames the closures seenWinning, seenLosing can draw, one per choice
\* of the random values the frame draws
Frames(seenWinning, seenLosing) ==
  FramesFrom(seenWinning, seenLosing,
             CHOOSE r \in RouletteDraws : TRUE, CHOOSE sg \in SignDraws : TRUE)

\* requestAnimationFrame calls draw
Draw ==
  /\ mounted
  /\ IF RenderPending THEN staleFrames < MaxStaleFrames
     ELSE IF isWinning THEN settleFrames < MaxWonFrames
     ELSE IF isLosing THEN settleFrames < MaxLostFrames
     ELSE playFrames < MaxPlayFrames
  /\ \E w \in Frames(isWinning, isLosing) : Commit(w)
  /\ staleFrames' = IF RenderPending THEN staleFrames + 1 ELSE staleFrames
  /\ settleFrames' = IF ~RenderPending /\ (isWinning \/ isLosing)
                     THEN settleFrames + 1 ELSE settleFrames
  /\ playFrames' = IF ~RenderPending /\ ~isWinning /\ ~isLosing
                   THEN playFrames + 1 ELSE playFrames
  /\ jitterDraws' = IF JitterApplies /\ jitterDraws < MaxJitterDraws
                    THEN jitterDraws + 1 ELSE jitterDraws
  /\ UNCHANGED <<props, isWinning, isLosing, gameEnds, instances, mounted>>

\* React renders the component with the new isWinning / isLosing; the loop
\* effect restarts and its render() draws a frame at once
Rerender ==
  /\ mounted
  /\ RenderPending
  /\ isWinning' = setWinning
  /\ isLosing' = setLosing
  /\ \E w \in Frames(setWinning, setLosing) : Commit([w EXCEPT !.ev.kind = "render"])
  /\ settleFrames' = settleFrames + 1
  /\ jitterDraws' = IF JitterApplies /\ jitterDraws < MaxJitterDraws
                    THEN jitterDraws + 1 ELSE jitterDraws
  /\ UNCHANGED <<props, gameEnds, instances, mounted, playFrames, staleFrames>>

\* a setTimeout(..., 750) callback calls onGameEnd; App gives the instance a
\* new key, which unmounts this component
TimerFire ==
  /\ timeouts # <<>>
  /\ LET report == [ instanceId |-> props.instanceId,
                     result |-> Head(timeouts), score |-> score,
                     remainingLives |-> IF Head(timeouts) = "win" THEN lives ELSE 0,
                     productivity |-> getProductivity(World),
                     productiveHits |-> productiveHits,
                     nonProductiveHits |-> nonProductiveHits,
                     jackpotsHit |-> jackpotsThisGame ]
     IN  /\ gameEnds' = Append(gameEnds, report)
         /\ instances' = handleGameEnd(instances, report)
         /\ ev' = [NoEvent("timer") EXCEPT !.stuckDeclarations = ev.stuckDeclarations,
                                           !.lastStuckFrame = ev.lastStuckFrame,
                                           !.previousStuckFrame = ev.lastStuckFrame,
                                           !.report = report]
  /\ timeouts' = Tail(timeouts)
  /\ mounted' = FALSE
  /\ UNCHANGED <<props, ball, paddle, prevPaddleX, paddleVelocity, bricks, score, lives,
                 isPowerShotMode, frameCounter, lastBrickBreakFrame, ballPositionHistory,
                 recoveringFromStuckCounter, isStuck, productiveHits, nonProductiveHits,
                 dynamicAggressionFactor, currentTargetBrick, strategicPlan,
                 jackpotsThisGame, isWinning, isLosing, setWinning, setLosing,
                 playFrames, settleFrames, staleFrames, jitterDraws>>

\* a faulty variant of the mount: the component of the previous match is kept
\* (its key has not changed), so its refs are those the previous match left
SameComponent(w, p) == w

\* the refs and the state of a newly mounted Game: the useRef / useState
\* initial values
NewComponent(w, p) ==
  [w EXCEPT
     !.ball = [ x |-> CANVAS_WIDTH \div 2,
                y |-> CANVAS_HEIGHT - PADDLE_Y_OFFSET - PADDLE_HEIGHT - BALL_RADIUS,
                dx |-> BALL_SPEED_X, dy |-> BALL_SPEED_Y, radius |-> BALL_RADIUS,
                isPowerBall |-> FALSE, powerBallTimer |-> 0 ],
     !.paddle = [x |-> (CANVAS_WIDTH - PADDLE_WIDTH) \div 2, width |-> PADDLE_WIDTH],
     !.prevPaddleX = (CANVAS_WIDTH - PADDLE_WIDTH) \div 2,
     !.paddleVelocity = 0,
     !.score = 0,
     !.lives = p.initialLives,
     !.isPowerShotMode = FALSE,
     !.frameCounter = 0,
     !.lastBrickBreakFrame = 0,
     !.ballPositionHistory = <<>>,
     !.recoveringFromStuckCounter = 0,
     !.isStuck = FALSE,
     !.productiveHits = 0,
     !.nonProductiveHits = 0,
     !.dynamicAggressionFactor = CONF_ONE,
     !.currentTargetBrick = NoBrick,
     !.strategicPlan = NoPlan,
     !.jackpotsThisGame = 0,
     !.setWinning = FALSE,
     !.setLosing = FALSE]

\* the effect that initialises a match, on the refs w of the component
InitEffect(w, p, layout, goldenRand, rand) ==
  [resetBallAndPaddle(w, rand) EXCEPT
     !.bricks = createBricks(layout, goldenRand),
     !.score = 0,
     !.lives = p.initialLives,
     !.frameCounter = 0,
     !.lastBrickBreakFrame = 0,
     !.ballPositionHistory = <<>>,
     !.isStuck = FALSE,
     !.productiveHits = 0,
     !.nonProductiveHits = 0,
     !.dynamicAggressionFactor = CONF_ONE,
     !.jackpotsThisGame = 0,
     !.setWinning = FALSE,
     !.setLosing = FALSE]

\* the layout and the Math.random() values a mount after a finished match draws
MountDraws ==
  { [layout |-> 1, goldenRand |-> 0, rand |-> 50],
    [layout |-> 4, goldenRand |-> 99, rand |-> 51] }

\* React commits the instance's new key and initialLives: the Game of the
\* finished match is gone, a new one is mounted and its init effect runs. The
\* model follows the next match once the reports of the finished one are all
\* delivered.
Remount ==
  /\ ~mounted
  /\ timeouts = <<>>
  /\ LET p == [props EXCEPT !.initialLives = instances[props.instanceId].initialLives]
     IN  /\ props' = p
         /\ \E d \in MountDraws :
              LET w == InitEffect(NewComponent(World, p), p, d.layout, d.goldenRand, d.rand)
              IN  Commit([w EXCEPT !.ev = [NoEvent("mount") EXCEPT
                                             !.bricksBefore = w.bricks,
                                             !.seen = Seen(w)]])
  /\ isWinning' = FALSE
  /\ isLosing' = FALSE
  /\ gameEnds' = <<>>
  /\ mounted' = TRUE
  /\ playFrames' = 0
  /\ settleFrames' = 0
  /\ staleFrames' = 0
  /\ jitterDraws' = 0
  /\ UNCHANGED instances

Next == Draw \/ Rerender \/ TimerFire \/ Remount

Spec == Init /\ [][Next]_vars

\* the same machine, started in a match in which the agent is stuck
StuckInit == \E m \in StuckMatches : StartFrom(m)

StuckSpec == StuckInit /\ [][Next]_vars

\* ------------------------------------------------------------------------
\* App alone: the six instances report their matches one after the other
\* ------------------------------------------------------------------------
\* App after initializeInstances, the Games at the start of their first match
AppInit == StartFrom(MatchStart(GameProps(INITIAL_LIVES, 100, 3), 1, 0, 50))

\* the Game of some instance calls onGameEnd: a loss with 0 remaining lives,
\* or a win with between 1 and all of the lives the instance started with
GameEnd ==
  /\ Len(gameEnds) < MaxReports
  /\ \E i \in DOMAIN instances, result \in {"win", "loss"} :
       \E remainingLives \in (IF result = "win" THEN 1 .. instances[i].initialLives ELSE {0}) :
         LET won == result = "win"
             report == [ instanceId |-> i, result |-> result,
                         score |-> IF won THEN 450 ELSE 120,
                         remainingLives |-> remainingLives,
                         productivity |-> IF won THEN 7500 ELSE 2500,
                         productiveHits |-> IF won THEN 45 ELSE 12,
                         nonProductiveHits |-> IF won THEN 15 ELSE 36,
                         jackpotsHit |-> 0 ]
         IN  /\ gameEnds' = Append(gameEnds, report)
             /\ instances' = handleGameEnd(instances, report)
             /\ ev' = [ev EXCEPT !.kind = "report", !.report = report]
  /\ UNCHANGED <<props, ball, paddle, prevPaddleX, paddleVelocity, bricks, score, lives,
                 isPowerShotMode, frameCounter, lastBrickBreakFrame, ballPositionHistory,
                 recoveringFromStuckCounter, isStuck, productiveHits, nonProductiveHits,
                 dynamicAggressionFactor, currentTargetBrick, strategicPlan,
                 jackpotsThisGame, isWinning, isLosing, setWinning, setLosing, timeouts,
                 mounted, playFrames, settleFrames, staleFrames, jitterDraws>>

AppSpec == AppInit /\ [][GameEnd]_vars

\* ========================================================================
\* Properties
\* ========================================================================

\* the step was a frame that ran the physics step and collisionDetection
PhysicsFrame == ev.kind \in {"draw", "render"} /\ ev.physics

\* the bricks that went from alive to broken in the last frame
BrokenThisFrame ==
  { c \in Cells : ev.bricksBefore[c].status = 1 /\ bricks[c].status = 0 }

\* every brick of the layout is broken
AllBroken == \A c \in Cells : bricks[c].status = 0

\* the match has entered Won / Lost (setIsWinning(true) / setIsLosing(true) was called)
Won == setWinning
Lost == setLosing

\* C1: a frame whose collision resolution breaks the last brick of the field
\* (by a direct hit or by a Jackpot row clear) enters the win state in that
\* same frame.
C1_WinOnLastBreakFrame ==
  (PhysicsFrame /\ BrokenThisFrame # {} /\ AllBroken) => Won

\* C1, what the code does: the win is entered by the first frame that runs
\* collisionDetection with every brick already broken when its scan starts
C1_WinOnNextScan ==
  (PhysicsFrame /\ ev.winDetected) =>
     (BrokenThisFrame = {} /\ AllBroken /\ Won)

\* C2: onGameEnd is invoked at most once per match, under every interleaving
\* of frames, the isWinning / isLosing state update and the report timers.
C2_OutcomeEmittedOnce == Len(gameEnds) <= 1

\* C2, the weaker statement the code does keep: the reports of one match all
\* carry the same result
C2_ReportsAgree ==
  \A i, j \in 1 .. Len(gameEnds) : gameEnds[i].result = gameEnds[j].result

\* C3: once the match has entered Won or Lost it stays there and never enters
\* the other terminal state, and no later step changes the ball, a brick
\* status, the score, the lives or the hit counters.
C3_TerminalIrreversible ==
  [][(Won \/ Lost) =>
        /\ setWinning' = setWinning /\ setLosing' = setLosing
        /\ ball' = ball /\ bricks' = bricks /\ score' = score /\ lives' = lives
        /\ productiveHits' = productiveHits
        /\ nonProductiveHits' = nonProductiveHits]_vars

\* the ball is fully past the bottom edge
BallPastBottom == ball.y - ball.radius > CANVAS_HEIGHT

\* C4: the match enters Lost in exactly the frame in which the ball is fully
\* past the bottom edge and the decrement brings lives to 0; it is never Lost
\* while lives > 0, and a bottom exit that leaves lives > 0 does not end the
\* match (the ball and the paddle are reset instead).
C4_LossOnZeroLives ==
  /\ Lost => lives <= 0
  /\ PhysicsFrame =>
       /\ ev.lossDetected <=> (ev.floorExit /\ lives = 0)
       /\ ev.lossDetected => (Lost /\ BallPastBottom)
       /\ (ev.floorExit /\ lives > 0) =>
            (~Lost /\ ~Won /\ timeouts = <<>> /\ ~BallPastBottom)

\* C4: a frame took the last life
C4_LossReached ==
  PhysicsFrame /\ ev.floorExit /\ ev.lossDetected /\ lives = 0 /\ Lost

\* the squared speed of the ball lies in [MIN_BALL_SPEED, MAX_BALL_SPEED], up
\* to the rounding of one fixed-point unit per component
SpeedInRange(b) ==
  LET sq == b.dx * b.dx + b.dy * b.dy
  IN  /\ sq >= (MIN_BALL_SPEED - 2) * (MIN_BALL_SPEED - 2)
      /\ sq <= (MAX_BALL_SPEED + 2) * (MAX_BALL_SPEED + 2)

\* the frame resolved a golden brick as a Dud or a Power Ball
SpeedRoulette(e) == e.roulette \in {"DUD", "POWER_BALL"}

\* C5: the ball speed at the end of every frame update lies in
\* [MIN_BALL_SPEED, MAX_BALL_SPEED], except in the frame of a Dud or Power-Ball
\* resolution and in the single frame that follows it.
C5_SpeedWithinBounds ==
  [][(PhysicsFrame' /\ ~SpeedRoulette(ev) /\ ~SpeedRoulette(ev'))
       => SpeedInRange(ball')]_vars

\* C6: after every frame and after every ball / paddle reset, paddle.x is
\* within [0, CANVAS_WIDTH - paddle.width].
C6_PaddleInField ==
  paddle.x >= 0 /\ paddle.x <= CANVAS_WIDTH - paddle.width

\* C6: the AI has moved the paddle and the paddle stands at the left edge
C6_PaddleAtEdge ==
  ev.kind \in {"draw", "render"} /\ ev.finalKind # NULL /\ paddle.x = 0

\* the frame started with a ball that was not a power ball
NonPowerFrame == PhysicsFrame /\ ~ev.powerAtStart

\* C7: in every frame that starts with isPowerBall false, at most one brick
\* changes from alive to broken, also when the brick hit is the golden brick.
C7_OneBrickPerFrame ==
  NonPowerFrame => Cardinality(BrokenThisFrame) <= 1

\* C7, amended: in every frame that starts with isPowerBall false the scan
\* breaks at most one brick by contact; more bricks break in that frame only
\* through the Jackpot of the golden brick hit, and they lie in its row.
C7_OneContactPerFrame ==
  NonPowerFrame =>
    /\ ev.direct <= 1
    /\ BrokenThisFrame # {} => ev.direct = 1
    /\ Cardinality(BrokenThisFrame) > 1 =>
         /\ ev.jackpot.happened
         /\ \A c \in BrokenThisFrame : c[2] = ev.jackpot.row

\* C7: a non-power ball hit the golden brick and its Jackpot broke more bricks
C7_JackpotBreaksMore ==
  /\ NonPowerFrame /\ ev.direct = 1 /\ ev.jackpot.happened
  /\ Cardinality(BrokenThisFrame) > 1

\* the bricks a Jackpot resolution broke, from its observation j
JackpotBroke(j) ==
  { c \in Cells : j.pre.bricks[c].status = 1 /\ j.post.bricks[c].status = 0 }

\* the row of the golden brick, as the index of its cell
GoldenRow(bs) == (CHOOSE c \in Cells : bs[c].isGolden)[2]

\* C8: a Jackpot resolution leaves every brick of the golden brick's row
\* broken and every brick of every other row as it was; score and productive
\* hits grow by one brick's worth per brick it broke, the jackpot counter by 1.
C8_JackpotClearsRow ==
  ev.jackpot.happened =>
    LET j == ev.jackpot
        row == GoldenRow(j.pre.bricks)
        n == Cardinality(JackpotBroke(j))
    IN  /\ \A c \in Cells : c[2] = row => j.post.bricks[c].status = 0
        /\ \A c \in Cells : c[2] # row => j.post.bricks[c] = j.pre.bricks[c]
        /\ \A c \in JackpotBroke(j) : c[2] = row
        /\ j.post.score = j.pre.score + POINTS_PER_BRICK * n
        /\ j.post.productiveHits = j.pre.productiveHits + n
        /\ j.post.jackpotsThisGame = j.pre.jackpotsThisGame + 1

\* C8: a Jackpot broke two bricks of the row while another row had a brick alive
C8_JackpotBrokeTwo ==
  /\ ev.jackpot.happened
  /\ Cardinality(JackpotBroke(ev.jackpot)) = 2
  /\ \E c \in Cells : c[2] # ev.jackpot.row /\ ev.jackpot.post.bricks[c].status = 1
  /\ score = ev.jackpot.post.score

\* the step was a frame (every frame runs the loop detection)
Frame == ev.kind \in {"draw", "render"}

\* the history is full and confined and the last break is long ago: the
\* detector's condition but for its guard
LoopConditionMet ==
  /\ Len(ballPositionHistory) = AI_LOOP_DETECTION_HISTORY_LENGTH
  /\ IsConfined(ballPositionHistory)
  /\ frameCounter - lastBrickBreakFrame > AI_STUCK_FRAMES_THRESHOLD

\* C9: in every frame where isStuck is true or the recovery counter is > 0 at
\* the loop-detection step, the detector declares nothing: the recovery
\* counter is not restarted and the position history is not cleared.
C9_NoDeclarationWhileStuck ==
  (Frame /\ (ev.stuckAtDetect \/ ev.recoveringAtDetect > 0)) =>
    /\ ~ev.stuckDeclared
    /\ recoveringFromStuckCounter = ev.recoveringAtDetect
    /\ ballPositionHistory # <<>>

\* C9: the ball is confined again for a full window while stuck and cooling down
C9_ConfinedWhileStuck ==
  /\ Frame /\ ev.stuckAtDetect /\ ev.recoveringAtDetect > 0
  /\ LoopConditionMet /\ ~ev.stuckDeclared

\* C10: a ball confined for a full history window with no brick break for
\* more than AI_STUCK_FRAMES_THRESHOLD frames is flagged stuck, once: the
\* flag is raised by the first such frame, and after a declaration at frame N
\* no declaration occurs before frame N + AI_RECOVERY_FRAMES, nor while
\* isStuck is still set, however long the ball stays confined.
C10_StuckFlaggedOnce ==
  Frame =>
    /\ ev.conditionAtDetect => ev.stuckDeclarations >= 1
    /\ (ev.conditionAtDetect /\ ev.previousStuckFrame = -1) => ev.stuckDeclared
    /\ ev.stuckDeclared =>
         /\ ev.conditionAtDetect /\ isStuck /\ ev.lastStuckFrame = frameCounter
         /\ recoveringFromStuckCounter = AI_RECOVERY_FRAMES
         /\ ev.previousStuckFrame # -1 =>
              /\ frameCounter - ev.previousStuckFrame >= AI_RECOVERY_FRAMES
              /\ ~ev.stuckAtDetect
    /\ (ev.previousStuckFrame # -1
        /\ frameCounter - ev.previousStuckFrame < AI_RECOVERY_FRAMES) =>
         ~ev.stuckDeclared

\* C10: the ball is still confined AI_RECOVERY_FRAMES frames after the one
\* declaration
C10_ConfinedThroughCooldown ==
  /\ Frame /\ ev.conditionAtDetect /\ ~ev.stuckDeclared
  /\ ev.stuckDeclarations = 1
  /\ frameCounter - ev.lastStuckFrame >= AI_RECOVERY_FRAMES

\* the bricks of the chosen layout: alive, or broken after drawBricks gave
\* them their position (the test of collisionDetection, line 529)
LayoutBricks == { c \in Cells : bricks[c].status = 1 \/ bricks[c].x # 0 \/ bricks[c].y # 0 }

\* the bricks of the layout that are broken
BrokenBricks == { c \in LayoutBricks : bricks[c].status = 0 }

\* C11: score = POINTS_PER_BRICK x (bricks of the layout now broken) and
\* productiveHits is that number, in every state of a match; so a win is
\* reported with POINTS_PER_BRICK x the number of bricks of the layout.
C11_ScoreCountsBrokenBricks ==
  /\ score = POINTS_PER_BRICK * Cardinality(BrokenBricks)
  /\ productiveHits = Cardinality(BrokenBricks)
  /\ \A i \in 1 .. Len(gameEnds) :
       gameEnds[i].result = "win" =>
         /\ gameEnds[i].score = POINTS_PER_BRICK * Cardinality(LayoutBricks)
         /\ gameEnds[i].productiveHits = Cardinality(LayoutBricks)

\* C11: a win was reported in a match whose golden brick resolved as a Jackpot
C11_WinAfterJackpot ==
  /\ gameEnds # <<>> /\ gameEnds[1].result = "win"
  /\ gameEnds[1].jackpotsHit > 0

GoldenBricks == { c \in Cells : bricks[c].isGolden }

\* C12: at most one brick is golden, the golden brick is a brick of the layout
\* (alive when the bricks were created), there is exactly one golden brick
\* when the layout has a brick, and none when it has no brick.
C12_OneGoldenBrick ==
  /\ Cardinality(GoldenBricks) <= 1
  /\ GoldenBricks \subseteq LayoutBricks
  /\ LayoutBricks # {} => Cardinality(GoldenBricks) = 1
  /\ LayoutBricks = {} => GoldenBricks = {}

\* a match created with the last brick of the layout as the golden one, in play
C12_LastBrickGolden ==
  /\ ev.kind = "draw"
  /\ \E c \in GoldenBricks : c = <<BRICK_COLUMN_COUNT - 1, BRICK_ROW_COUNT - 1>>
  /\ frameCounter = 1

\* C13: a brick that is broken stays broken in every step of a match: hits,
\* golden-brick outcomes, life losses and resets never give it status 1 again.
C13_BrokenStaysBroken ==
  [][ev'.kind # "mount" =>
       \A c \in Cells : bricks[c].status = 0 => bricks'[c].status = 0]_vars

\* a life was lost and the ball reset while bricks of the layout are broken
C13_ResetWithBrokenBricks ==
  /\ Frame /\ ev.floorExit /\ lives > 0
  /\ BrokenBricks # {}
  /\ AliveCells(bricks) # {}

\* |spin + spinFromVelocity| < 0.2 in the last paddle contact
BelowSpinGuard == Abs(ev.bounce.spin) * 10 < 2 * VU

\* C14: after every paddle contact the ball moves up (dy < 0) and dx is not 0;
\* when |spin + paddle-velocity term| is below the guard threshold, dx is the
\* signed minimum: 0.5 with the sign of the sum, positive when the sum is 0.
C14_PaddleContactLeavesUpwards ==
  (Frame /\ ev.paddleHit) =>
    /\ ball.dy < 0 /\ ball.dy = ev.bounce.dy
    /\ ball.dx # 0 /\ ball.dx = ev.bounce.dx
    /\ BelowSpinGuard =>
         ball.dx = (IF ev.bounce.spin < 0 THEN -1 ELSE 1) * (VU \div 2)
    /\ ~BelowSpinGuard => ball.dx = ev.bounce.spin

\* a dead-centre contact with a stationary paddle
C14_DeadCentreContact ==
  /\ Frame /\ ev.paddleHit
  /\ ev.bounce.spin = 0 /\ ev.bounce.velocity = 0
  /\ ball.x = paddle.x + paddle.width \div 2

\* the greatest score among the paths simulated in the last frame
MaxSimScore == SetMax({ev.simScores[i] : i \in 1 .. Len(ev.simScores)})

\* C15: after runShotSimulations the stored plan is non-null exactly when the
\* greatest score over the candidates exceeds 1, and its bestPathIndex names a
\* path with that score; when every candidate scores 0 or 1 the plan is
\* discarded and the frame has no planned-shot target.
C15_PlanKeptIffScoreAboveOne ==
  (Frame /\ ev.simulated) =>
    /\ Len(ev.simScores) = Len(AI_SIMULATION_ANGLES)
    /\ (strategicPlan # NoPlan) <=> (MaxSimScore > 1)
    /\ strategicPlan # NoPlan =>
         /\ strategicPlan.bestPathIndex \in 1 .. Len(strategicPlan.paths)
         /\ strategicPlan.paths[strategicPlan.bestPathIndex].score = MaxSimScore
         /\ ev.simScores = [i \in 1 .. Len(strategicPlan.paths) |-> strategicPlan.paths[i].score]
    /\ MaxSimScore <= 1 => (strategicPlan = NoPlan /\ ev.offensiveKind # "planned")

\* the simulations ran and the best path breaks exactly one brick
C15_BestPathBreaksOneBrick ==
  /\ Frame /\ ev.simulated
  /\ MaxSimScore = 1
  /\ strategicPlan = NoPlan

\* the forced flick-shot position of the stuck override: the defensive target
\* shifted by 0.9 of the half paddle width, away from the centre of the field
ForcedFlickTarget ==
  LET flickDirection == IF CANVAS_WIDTH \div 2 - ball.x < 0 THEN -1 ELSE 1
  IN  ev.defensiveTargetX - flickDirection * ((9 * (paddle.width \div 2)) \div 10)

\* C16: in the frame in which stuck is declared, the paddle target of that
\* frame's movement is the forced flick-shot position, whatever the defensive,
\* gamble, planned, finisher and heuristic targets are.
C16_DeclaringFrameForcesFlick ==
  (Frame /\ ev.stuckDeclared) =>
    /\ ev.finalKind = "stuck"
    /\ ev.finalTargetX = ForcedFlickTarget

\* C17: once isStuck is set it stays set in every step of the match until the
\* first frame in which the paddle collision fires, and it is false at the end
\* of that frame; a life loss with its reset and the expiry of the cooldown do
\* not clear it.
C17_StuckUntilPaddleContact ==
  [][(isStuck /\ ev'.kind # "mount") => (isStuck' <=> ~ev'.paddleHit)]_vars

\* the ball of a stuck agent met the paddle in the last frame
C17_PaddleContactWhileStuck ==
  /\ Frame /\ ev.stuckAtDetect /\ ev.paddleHit
  /\ ~isStuck

RecoveringInFrame == ev.recoveringAtDetect > 0
StuckInFrame == ev.stuckAtDetect

\* C19: while the recovery counter is above 0 after the frame's decrement, or
\* the agent is stuck, the shot planner is not run; while the cooldown runs the
\* final paddle target is the defensive target or its flick-adjusted variant,
\* never an offensive one, and the power-shot flag is not armed.
C19_CooldownSuppressesOffence ==
  Frame =>
    /\ (RecoveringInFrame \/ StuckInFrame) => (~ev.simulated /\ strategicPlan = NoPlan)
    /\ RecoveringInFrame =>
         /\ ev.finalKind \in {"defensive", "flick"}
         /\ ev.finalKind \notin {"gamble", "planned", "finisher", "heuristic"}
         /\ ev.finalKind = "defensive" => ev.finalTargetX = ev.defensiveTargetX
         /\ ev.finalKind = "flick" =>
              Abs(ev.finalTargetX - ev.defensiveTargetX)
                = paddle.width \div 2 - paddle.width \div 10
         /\ ~isPowerShotMode

\* the cooldown runs, the agent wants to gamble and has a gamble target, and the
\* paddle follows the defensive target
C19_GambleHeldBack ==
  /\ Frame /\ RecoveringInFrame
  /\ ev.wantsToGamble /\ ev.offensiveKind = "gamble"
  /\ ev.finalKind = "defensive"

\* C20: in every frame in which the agent decides to gamble, the offensive
\* target is the gamble target and the current target brick is the golden
\* brick: no planned, finisher or heuristic step sets either of them,
\* whichever way the ball travels.
C20_GambleTakesPrecedence ==
  (Frame /\ ev.wantsToGamble) =>
    /\ ev.offensiveKind = "gamble"
    /\ ev.offensiveTargetX # None
    /\ currentTargetBrick # NoBrick
    /\ ev.bricksBefore[currentTargetBrick].isGolden

\* the golden brick was alive when the AI block of the last frame ran
GoldenAliveSeen ==
  \E c \in Cells : ev.bricksBefore[c].isGolden /\ ev.bricksBefore[c].status = 1

BottomRanked == props.rank = props.totalInstances /\ props.totalInstances > 1
TopRanked == props.rank = 1 /\ props.totalInstances > 1

\* C21: the agent decides to gamble only if the golden brick is alive and
\* lives > 1; then the bottom-ranked agent of a population > 1 gambles whatever
\* its confidence, the top-ranked one never does, and any other agent gambles
\* exactly when its confidence exceeds 1.2.
C21_GambleWillingness ==
  Frame =>
    (ev.wantsToGamble <=>
       /\ GoldenAliveSeen
       /\ ev.seen.lives > 1
       /\ \/ BottomRanked
          \/ /\ ~BottomRanked /\ ~TopRanked
             /\ ev.seen.aggression * 10 > 12 * CONF_ONE)

\* an agent between the top and the bottom rank gambles on its confidence
C21_MiddleAgentGambles ==
  /\ Frame /\ ev.wantsToGamble
  /\ ~BottomRanked /\ ~TopRanked
  /\ ev.seen.aggression * 10 > 12 * CONF_ONE

\* the alive bricks the AI block of the last frame counted
RemainingSeen == Cardinality({c \in Cells : ev.bricksBefore[c].status = 1})

\* the mode the precedence rule gives for what the AI block read
ModeByRule ==
  IF RemainingSeen <= AI_END_GAME_BRICK_COUNT THEN "finisher"
  ELSE IF ev.seen.lives = 1 THEN "clutch"
  ELSE IF ev.seen.lives > 2 /\ ev.seen.productivity < 40 * 100 /\ ev.seen.frame > 180
       THEN "grit"
  ELSE "normal"

\* C22: in every frame the mode is finisher if at most AI_END_GAME_BRICK_COUNT
\* bricks remain (0 included), else clutch if lives = 1, else grit if lives > 2
\* and productivity < 40% and the frame counter is past 180, else normal.
C22_ModePrecedence == Frame => ev.agentMode = ModeByRule

ConfidenceInRange ==
  /\ dynamicAggressionFactor * 10 >= 5 * CONF_ONE
  /\ dynamicAggressionFactor * 10 <= 15 * CONF_ONE

\* C23: the confidence lies in [0.5, 1.5] in every state; a step with brick
\* hits and no wall hit never lowers it, a step with wall hits and no brick hit
\* never raises it, and a step with neither leaves it as it is.
C23_ConfidenceBounded ==
  /\ []ConfidenceInRange
  /\ [][/\ (productiveHits' > productiveHits /\ nonProductiveHits' = nonProductiveHits)
             => dynamicAggressionFactor' >= dynamicAggressionFactor
        /\ (nonProductiveHits' > nonProductiveHits /\ productiveHits' = productiveHits)
             => dynamicAggressionFactor' <= dynamicAggressionFactor
        /\ (nonProductiveHits' = nonProductiveHits /\ productiveHits' = productiveHits)
             => dynamicAggressionFactor' = dynamicAggressionFactor]_vars

\* a brick hit that the cap kept at 1.5
C23_BrickHitAtCap ==
  /\ PhysicsFrame /\ BrokenThisFrame # {}
  /\ dynamicAggressionFactor * 10 = 15 * CONF_ONE
  /\ ev.seen.aggression * 10 > 14 * CONF_ONE

\* the ball as resetBallAndPaddle leaves it: at the start position, served
\* upwards at the start speed to either side, no power ball
BallAtStart(b) ==
  /\ b.x = CANVAS_WIDTH \div 2
  /\ b.y = CANVAS_HEIGHT - PADDLE_Y_OFFSET - PADDLE_HEIGHT - BALL_RADIUS
  /\ b.dy = BALL_SPEED_Y
  /\ b.dx \in {BALL_SPEED_X, -BALL_SPEED_X}
  /\ ~b.isPowerBall
  /\ b.powerBallTimer = 0

\* C24: a frame in which the ball is fully past the bottom edge takes exactly
\* one life; if a life is left the ball is back at the start position with
\* dy = BALL_SPEED_Y and |dx| = BALL_SPEED_X, the power ball and its timer are
\* cleared, the paddle is centred, and the score, the bricks, the two hit
\* counters and the confidence are what they were before the frame.
C24_LifeLostAndReset ==
  [][(ev'.kind \in {"draw", "render"} /\ ev'.physics /\ ev'.floorExit) =>
       /\ lives' = lives - 1
       /\ lives' > 0 =>
            /\ BallAtStart(ball')
            /\ paddle'.x = (CANVAS_WIDTH - PADDLE_WIDTH) \div 2
            /\ score' = score
            /\ bricks' = bricks
            /\ productiveHits' = productiveHits
            /\ nonProductiveHits' = nonProductiveHits
            /\ dynamicAggressionFactor' = dynamicAggressionFactor]_vars

\* C24: a power ball was lost through the floor with a life to spare
C24_PowerBallLost ==
  /\ PhysicsFrame /\ ev.floorExit /\ lives > 0
  /\ ev.seen.ball.isPowerBall /\ ev.seen.ball.powerBallTimer > 1
  /\ BallAtStart(ball)

\* C25: the AI decision and the loop-detector history entry of a frame are
\* based on the ball and the bricks as that same frame's physics step leaves
\* them: the ball the AI block read, the position the detector pushed and the
\* bricks the AI block counted are those of the end of the frame.
C25_AgentSeesFramePhysics ==
  (PhysicsFrame /\ ev.agentMode # NULL /\ ~ev.stuckDeclared) =>
     /\ ev.seen.ball.x = ball.x /\ ev.seen.ball.y = ball.y
     /\ ballPositionHistory # <<>>
     /\ ballPositionHistory[Len(ballPositionHistory)] = [x |-> ball.x, y |-> ball.y]
     /\ ev.bricksBefore = bricks

\* C26: when the match initialisation has run, the score, the lives (the
\* configured initial lives), the productive and non-productive hit counters,
\* the confidence (1.0), the jackpot counter, the frame counter, the
\* last-productive frame, the position history, the stuck flag, the recovery
\* cooldown counter and the armed power-shot flag hold their initial values,
\* whatever the component of the previous match held.
C26_MatchStartsFresh ==
  ev.kind = "mount" =>
     /\ score = 0
     /\ lives = props.initialLives
     /\ lives = instances[props.instanceId].initialLives
     /\ productiveHits = 0
     /\ nonProductiveHits = 0
     /\ dynamicAggressionFactor = CONF_ONE
     /\ jackpotsThisGame = 0
     /\ frameCounter = 0
     /\ lastBrickBreakFrame = 0
     /\ ballPositionHistory = <<>>
     /\ ~isStuck
     /\ recoveringFromStuckCounter = 0
     /\ ~isPowerShotMode

\* C26: a match starts after one that ended with the cooldown running and a
\* score
C26_AfterACooldown ==
  /\ ev.kind = "mount"
  /\ ev.left.recoveringFromStuckCounter > 0
  /\ ev.left.score > 0
  /\ recoveringFromStuckCounter = 0
  /\ score = 0

\* the last step was a report: the model's TimerFire
Reported == ev.kind = "timer" /\ gameEnds # <<>>

\* C27: in every state of a match 0 <= lives <= initialLives; lives never
\* increases during a match and changes only by a decrement of exactly 1 in a
\* frame with a bottom exit; a win is reported with remaining lives >= 1 and a
\* loss with remaining lives = 0.
C27_LivesWithinRange ==
  /\ [](0 <= lives /\ lives <= props.initialLives)
  /\ [][ev'.kind # "mount" =>
          /\ lives' <= lives
          /\ lives' # lives => (lives' = lives - 1 /\ ev'.physics /\ ev'.floorExit)]_vars
  /\ [](\A i \in 1 .. Len(gameEnds) :
          /\ gameEnds[i].result = "win" => gameEnds[i].remainingLives >= 1
          /\ gameEnds[i].result = "loss" => gameEnds[i].remainingLives = 0)

\* C28: between frames the ball is a power ball exactly while its timer is
\* positive; a frame sets the timer to POWER_BALL_DURATION only when its
\* roulette resolves as POWER_BALL, otherwise a positive timer goes down by
\* exactly 1 in the frame, and the flag is cleared in the frame the timer
\* reaches 0 or in a frame that resets the ball after a life is lost.
C28_PowerBallTimer ==
  /\ [](ball.isPowerBall <=> ball.powerBallTimer > 0)
  /\ [][ev'.kind \in {"draw", "render"} =>
          LET timer == ball.powerBallTimer
              reset == ev'.floorExit /\ ~ev'.lossDetected
          IN  /\ ball'.powerBallTimer = POWER_BALL_DURATION <=> ev'.roulette = "POWER_BALL"
              /\ reset => (ball'.powerBallTimer = 0 /\ ~ball'.isPowerBall)
              /\ (ev'.roulette # "POWER_BALL" /\ ~reset) =>
                    ball'.powerBallTimer = (IF timer > 0 THEN timer - 1 ELSE 0)
              /\ (ball.isPowerBall /\ ~ball'.isPowerBall) =>
                    (reset \/ (timer = 1 /\ ball'.powerBallTimer = 0))]_vars

\* C28: the timer ran out in the frame and the ball is no power ball any more
C28_PowerBallExpired ==
  /\ ev.kind \in {"draw", "render"}
  /\ ev.powerAtStart /\ ev.roulette = NULL /\ ~ev.floorExit
  /\ ~ball.isPowerBall /\ ball.powerBallTimer = 0

\* C29: in a frame the agent plays in clutch mode, an agent that is not the
\* bottom-ranked one of a population > 1 has a decision confidence of at most
\* 0.55, below the 0.7 floor of the acceptance test: the final target is the
\* defensive one, its flick variant or the stuck override, never an offensive
\* target, and the power shot is not armed.
C29_ClutchNeverAttacks ==
  (Frame /\ ev.agentMode = "clutch" /\ ev.finalKind # NULL /\ ~BottomRanked) =>
     /\ ev.seen.lives = 1
     /\ ev.decisionConfidence * 100 <= 55 * CONF_ONE
     /\ ev.finalKind \in {"defensive", "flick", "stuck"}
     /\ ev.finalKind = "defensive" => ev.finalTargetX = ev.defensiveTargetX
     /\ ~isPowerShotMode

\* C29: the top-ranked agent on its last life had an offensive target and
\* kept to the defensive one
C29_ClutchDeclinesOffence ==
  /\ Frame /\ ev.agentMode = "clutch" /\ TopRanked
  /\ ev.offensiveTargetX # None /\ ev.offensiveTargetX # NotANumber
  /\ ev.recoveringAtDetect = 0 /\ ~ev.stuckAtDetect
  /\ ev.decisionConfidence * 100 = 55 * CONF_ONE
  /\ ev.finalKind = "defensive"
  /\ ~isPowerShotMode

\* the last step was an onGameEnd call
ReportStep == ev.kind \in {"timer", "report"}

\* C30: across the reported outcomes the initial lives of every instance are an
\* integer from 1 to INITIAL_LIVES + 1; a report sets those of the reporting
\* instance to INITIAL_LIVES after a loss and to
\* min(INITIAL_LIVES + 1, remainingLives + 1) after a win, and changes the
\* record of no other instance.
C30_NextInitialLives ==
  /\ [](\A i \in DOMAIN instances :
          instances[i].initialLives \in 1 .. INITIAL_LIVES + 1)
  /\ [][ev'.kind \in {"timer", "report"} =>
          LET r == ev'.report
          IN  /\ r.instanceId \in DOMAIN instances
              /\ instances'[r.instanceId].initialLives =
                   (IF r.result = "win"
                    THEN Min(INITIAL_LIVES + 1, r.remainingLives + 1)
                    ELSE INITIAL_LIVES)
              /\ r.result = "loss" => r.remainingLives = 0
              /\ instances'[r.instanceId].gamesPlayed = instances[r.instanceId].gamesPlayed + 1
              /\ \A j \in DOMAIN instances \ {r.instanceId} : instances'[j] = instances[j]]_vars

\* C30: an instance that started with the bonus life after a first win won
\* its next match without losing a life: it starts with INITIAL_LIVES + 1 again
C30_BonusLifeCapped ==
  /\ ReportStep /\ ev.report.result = "win"
  /\ ev.report.remainingLives = INITIAL_LIVES + 1
  /\ instances[ev.report.instanceId].initialLives = INITIAL_LIVES + 1
  /\ Len(gameEnds) = 2 /\ gameEnds[1].instanceId = ev.report.instanceId

====
